---- MODULE Spec2Model ----
(***************************************************************************)
(* A model of the sbat crate: the restricted CSV decoder (csv.rs,          *)
(* lines.rs), the record model (generation.rs, component.rs, image.rs)     *)
(* and the revocation comparison (revocations.rs).                         *)
(*                                                                         *)
(* Text is a sequence of bytes (0..255).  Option<T> is a sequence of       *)
(* length 0 (None) or 1 (Some).  Result<T, E> is a record with an ok flag. *)
(* A u32 is a pair of 16-bit limbs so that the whole range 0..2^32-1 is    *)
(* represented exactly.  Where the source binds a value with `let` and     *)
(* then branches on it, the model passes the value to an operator that     *)
(* holds the branches (named after the function, with a suffix).           *)
(***************************************************************************)
EXTENDS Integers, Sequences, FiniteSets, TLC

VARIABLES
    image_data,       \* combo.rs: the bytes handed to ImageSbat::parse
    revocation_data,  \* combo.rs: the bytes handed to RevocationSbat::parse
    pc,               \* position of the caller
    image,            \* Result<&ImageSbat, ParseError>
    revocations,      \* Result<&RevocationSbat, ParseError>
    date,             \* Option<Option<&AsciiStr>>: what date() returned, once called
    rc_iter,          \* RevokedComponents: the CsvIter's line_iter
    components,       \* the components yielded by revoked_components() so far
    result,           \* Option<ValidationResult>: what validate_image returned
    entries_iter,     \* Entries: the CsvIter's line_iter
    entries,          \* the entries yielded by entries() so far
    verdicts,         \* is_component_revoked of each yielded entry's component
    panicked,         \* TRUE once an unwrap has failed
    gen_text,         \* the text handed to Generation::from_ascii
    gen_val,          \* the u32 handed to Generation::new
    gen_result,       \* once an operation on generations returned: the operation and its result
    csv_input,        \* the text a CsvIter was made from
    csv_num_fields,   \* the NUM_FIELDS of that CsvIter
    csv_iter,         \* CsvIter: its line_iter
    csv_items,        \* what each call of CsvIter::next returned so far
    section_data,     \* the bytes handed to RevocationSection::parse
    section_len,      \* the length of the slice of section_data that was parsed
    section,          \* Option<Result<RevocationSection, RevocationSectionError>>
    store,            \* a Veclike store
    store_result,     \* once an operation on the store returned: the operation and its result
    written,          \* Option: the entries of the image written back as CSV text
    reparsed,         \* Option: what parsing the written text gave
    owned,            \* Option: what ImageSbatOwned::parse and RevocationSbatOwned::parse returned
    owned_seen,       \* Option: what the accessors returned for the owned values
    lines_iter,       \* Option<LineIter>: the text that a LineIter has left
    line_items        \* what each call of LineIter::next returned so far

vars == <<image_data, revocation_data, pc, image, revocations, date, rc_iter,
          components, result, entries_iter, entries, verdicts, panicked,
          gen_text, gen_val, gen_result,
          csv_input, csv_num_fields, csv_iter, csv_items,
          section_data, section_len, section, store, store_result,
          written, reparsed, owned, owned_seen, lines_iter, line_items>>

\* The state of the parts that the caller of combo.rs does not touch.
csv_vars == <<csv_input, csv_num_fields, csv_iter, csv_items>>
section_vars == <<section_data, section_len, section>>
store_vars == <<store, store_result>>
extra_vars == <<written, reparsed, owned, owned_seen, lines_iter, line_items>>
other_vars == <<csv_vars, section_vars, store_vars, extra_vars>>

(***************************************************************************)
(* Option and Result                                                       *)
(***************************************************************************)
None == <<>>
Some(v) == <<v>>
Ok(v) == [ok |-> TRUE, val |-> v]
Err(e) == [ok |-> FALSE, err |-> e]

(***************************************************************************)
(* error.rs: ParseError                                                    *)
(***************************************************************************)
InvalidAscii == [kind |-> "InvalidAscii"]
SpecialChar(chr) == [kind |-> "SpecialChar", chr |-> chr]
InvalidGeneration == [kind |-> "InvalidGeneration"]
TooFewFields == [kind |-> "TooFewFields"]

(***************************************************************************)
(* Bytes                                                                   *)
(***************************************************************************)
Null == 0
LineFeed == 10
CarriageReturn == 13
Comma == 44
Plus == 43
Minus == 45
Zero == 48
MaxAscii == 127

\* First 1-based index of an element of s satisfying "= b", or 0:
\* Iterator::position of csv.rs:75 and lines.rs:24-27.
position(s, b) ==
    IF \E i \in 1..Len(s) : s[i] = b
    THEN CHOOSE i \in 1..Len(s) : s[i] = b /\ \A j \in 1..(i - 1) : s[j] # b
    ELSE 0

ALLOWED_SPECIAL_CHARS ==
    { 39,   \* Apostrophe
      42,   \* Asterisk
      64,   \* At
      93,   \* BracketClose
      91,   \* BracketOpen
      94,   \* Caret
      58,   \* Colon
      125,  \* CurlyBraceClose (listed twice in the source)
      123,  \* CurlyBraceOpen
      36,   \* Dollar
      46,   \* Dot
      33,   \* Exclamation
      62,   \* GreaterThan
      35,   \* Hash
      60,   \* LessThan
      45,   \* Minus
      41,   \* ParenClose
      40,   \* ParenOpen
      43,   \* Plus
      63,   \* Question
      59,   \* Semicolon
      47,   \* Slash
      32,   \* Space
      126,  \* Tilde
      95 }  \* UnderScore

is_alphanumeric(chr) ==
    \/ chr \in 48..57
    \/ chr \in 65..90
    \/ chr \in 97..122

\* Variant: the space not allowed.
is_char_allowed_in_field_no_space(chr) ==
    is_alphanumeric(chr) \/ chr \in (ALLOWED_SPECIAL_CHARS \ {32})

is_char_allowed_in_field(chr) ==
    is_alphanumeric(chr) \/ chr \in ALLOWED_SPECIAL_CHARS

(***************************************************************************)
(* csv.rs: trim_ascii_at_null                                              *)
(***************************************************************************)
\* Variant: the byte 0x80 counted as ASCII.
AsciiStr_from_ascii_upto128(bytes) ==
    IF \E i \in 1..Len(bytes) : bytes[i] > MaxAscii + 1
    THEN Err(InvalidAscii)
    ELSE Ok(bytes)

AsciiStr_from_ascii(bytes) ==
    IF \E i \in 1..Len(bytes) : bytes[i] > MaxAscii
    THEN Err(InvalidAscii)
    ELSE Ok(bytes)

\* Variant: the ASCII check made on the whole input, before the truncation.
trim_ascii_at_null_check_first(input) ==
    IF ~AsciiStr_from_ascii(input).ok
    THEN Err(InvalidAscii)
    ELSE IF position(input, Null) # 0
    THEN Ok(SubSeq(input, 1, position(input, Null) - 1))
    ELSE Ok(input)

trim_ascii_at_null(input) ==
    LET null_index == position(input, Null)
        trimmed == IF null_index # 0
                   THEN SubSeq(input, 1, null_index - 1)
                   ELSE input
    IN  AsciiStr_from_ascii(trimmed)

(***************************************************************************)
(* lines.rs: LineIter                                                      *)
(***************************************************************************)
\* Variant: a comma ends a line as "\n" does.
LineIter_next_at_comma(string) ==
    IF string = <<>>
    THEN [item |-> None, string |-> string]
    ELSE IF \E i \in 1..Len(string) : string[i] \in {LineFeed, Comma}
    THEN [item |-> Some(SubSeq(string, 1,
                      (CHOOSE i \in 1..Len(string) :
                          /\ string[i] \in {LineFeed, Comma}
                          /\ \A j \in 1..(i - 1) : string[j] \notin {LineFeed, Comma})
                      - 1)),
          string |-> SubSeq(string,
                      (CHOOSE i \in 1..Len(string) :
                          /\ string[i] \in {LineFeed, Comma}
                          /\ \A j \in 1..(i - 1) : string[j] \notin {LineFeed, Comma})
                      + 1, Len(string))]
    ELSE [item |-> Some(string), string |-> <<>>]

\* Variant: the "\r" stripped from a last line without "\n" too.
LineIter_next_strip_last(string) ==
    IF string = <<>>
    THEN [item |-> None, string |-> string]
    ELSE IF position(string, LineFeed) # 0
    THEN [item |-> Some(SubSeq(string, 1,
                      position(string, LineFeed) - 1
                      - (IF /\ position(string, LineFeed) > 1
                            /\ string[position(string, LineFeed) - 1]
                                   = CarriageReturn
                         THEN 1 ELSE 0))),
          string |-> SubSeq(string, position(string, LineFeed) + 1,
                            Len(string))]
    ELSE [item |-> Some(SubSeq(string, 1,
                      Len(string) - (IF string[Len(string)] = CarriageReturn
                                     THEN 1 ELSE 0))),
          string |-> <<>>]

\* LineIter::next on the remaining text: the item and the text left.
LineIter_next(string) ==
    IF string = <<>>
    THEN [item |-> None, string |-> string]
    ELSE LET line_end == position(string, LineFeed) IN
         IF line_end # 0
         THEN LET line == SubSeq(string, 1, line_end - 1)
                  rest == SubSeq(string, line_end + 1, Len(string))
              IN  IF Len(line) > 0 /\ line[Len(line)] = CarriageReturn
                  THEN [item |-> Some(SubSeq(line, 1, Len(line) - 1)),
                        string |-> rest]
                  ELSE [item |-> Some(line), string |-> rest]
         ELSE [item |-> Some(string), string |-> <<>>]

(***************************************************************************)
(* csv.rs: Record, CsvIter                                                 *)
(***************************************************************************)
\* AsciiStr::split: the fields between the separators.
RECURSIVE split(_, _)
split(s, sep) ==
    IF position(s, sep) = 0
    THEN <<s>>
    ELSE <<SubSeq(s, 1, position(s, sep) - 1)>>
         \o split(SubSeq(s, position(s, sep) + 1, Len(s)), sep)

\* Variant: a field beyond the maximum pushes the first one out.
add_field_keep_last(record, field, NUM_FIELDS) ==
    IF Len(record) < NUM_FIELDS
    THEN Append(record, field)
    ELSE Append(Tail(record), field)

\* Record::add_field: push if there is room, else drop the field.
add_field(record, field, NUM_FIELDS) ==
    IF Len(record) < NUM_FIELDS THEN Append(record, field) ELSE record

\* Record::get_field
get_field(record, index) ==
    IF index < Len(record) THEN Some(record[index + 1]) ELSE None

\* Variant: no character of a field is looked at.
find_special_char_none(field) == None

\* field.chars().find(|chr| !is_char_allowed_in_field(*chr))
find_special_char(field) ==
    LET bad == { i \in 1..Len(field) : ~is_char_allowed_in_field(field[i]) } IN
    IF bad = {}
    THEN None
    ELSE Some(field[CHOOSE i \in bad : \A j \in bad : i <= j])

\* The loop over the fields of one line (csv.rs:115-125): the first field
\* holding a disallowed character ends it with that character.
RECURSIVE add_fields(_, _, _)
add_fields(record, fields, NUM_FIELDS) ==
    IF fields = <<>>
    THEN Ok(record)
    ELSE IF find_special_char(Head(fields)) # None
    THEN Err(SpecialChar(find_special_char(Head(fields))[1]))
    ELSE add_fields(add_field(record, Head(fields), NUM_FIELDS),
                    Tail(fields), NUM_FIELDS)

\* The "skip empty lines" loop (csv.rs:107-112) on the remaining text.
RECURSIVE skip_empty_lines(_)
skip_empty_lines_step(r) ==
    IF r.item = None \/ r.item[1] # <<>>
    THEN r
    ELSE skip_empty_lines(r.string)

skip_empty_lines(string) == skip_empty_lines_step(LineIter_next(string))

\* Variant: the iterator kept after an error.
CsvIter_next_record_resumes(record, string) ==
    [item |-> Some(record), line_iter |-> Some(string)]

\* csv.rs:120-127: the record or the error, and the iterator left.
CsvIter_next_record(record, string) ==
    [item |-> Some(record),
     line_iter |-> IF record.ok THEN Some(string) ELSE None]

\* csv.rs:108-125: r is what the "skip empty lines" loop ended with.
CsvIter_next_line(r, NUM_FIELDS) ==
    IF r.item = None
    THEN [item |-> None, line_iter |-> Some(r.string)]
    ELSE CsvIter_next_record(
             add_fields(<<>>, split(r.item[1], Comma), NUM_FIELDS), r.string)

\* CsvIter::next: line_iter is the Option<LineIter> (the text left).
CsvIter_next(line_iter, NUM_FIELDS) ==
    IF line_iter = None
    THEN [item |-> None, line_iter |-> None]
    ELSE CsvIter_next_line(skip_empty_lines(line_iter[1]), NUM_FIELDS)

CsvIter_new(input) == Some(input)

(***************************************************************************)
(* generation.rs: Generation                                               *)
(***************************************************************************)
\* A u32 as two 16-bit limbs: the value is hi * Limb + lo.
Limb == 65536
U32(hi, lo) == [hi |-> hi, lo |-> lo]
U32_ZERO == U32(0, 0)
U32_MAX == U32(Limb - 1, Limb - 1)
U32_lt(a, b) == a.hi < b.hi \/ (a.hi = b.hi /\ a.lo < b.lo)

\* The digit loop of <u32 as FromStr>::from_str: checked_mul(10) then
\* checked_add(digit); None on a non-digit or on overflow of the u32.
RECURSIVE from_str_digits(_, _)
from_str_digits(acc, digits) ==
    IF digits = <<>>
    THEN Some(acc)
    ELSE IF Head(digits) \notin 48..57
    THEN None
    ELSE LET lo10 == acc.lo * 10 + (Head(digits) - Zero)
             hi10 == acc.hi * 10 + (lo10 \div Limb)
         IN  IF hi10 >= Limb
             THEN None
             ELSE from_str_digits(U32(hi10, lo10 % Limb), Tail(digits))

\* Variant: no sign accepted, digits only.
u32_from_str_unsigned(src) ==
    IF src = <<>> THEN None ELSE from_str_digits(U32_ZERO, src)

\* u32::from_str (generation.rs:40): empty text and a lone sign are errors,
\* one leading '+' is skipped, a '-' is not a digit of an unsigned type.
u32_from_str(src) ==
    IF src = <<>>
    THEN None
    ELSE IF src[1] \in {Plus, Minus} /\ Len(src) = 1
    THEN None
    ELSE IF src[1] = Plus
    THEN from_str_digits(U32_ZERO, Tail(src))
    ELSE from_str_digits(U32_ZERO, src)

Generation_default == U32(0, 1)

\* Variant: zero accepted.
Generation_new_unchecked(val) == Ok(val)

Generation_new(val) ==
    IF val = U32_ZERO THEN Err(InvalidGeneration) ELSE Ok(val)

\* generation.rs:40-42: val is what u32::from_str returned.
Generation_from_ascii_val(val) ==
    IF val = None THEN Err(InvalidGeneration) ELSE Generation_new(val[1])

Generation_from_ascii(s) == Generation_from_ascii_val(u32_from_str(s))

to_u32(generation) == generation

\* Variant: the last digit only.
Generation_fmt_last_digit(g) == <<Zero + (g.lo % 10)>>

\* Display for Generation (generation.rs:51-55): the decimal digits of the
\* u32, most significant first, no leading zero.
RECURSIVE Generation_fmt(_)
Generation_fmt(g) ==
    LET r == (g.hi % 10) * Limb + g.lo
        q == U32(g.hi \div 10, r \div 10)
        d == Zero + (r % 10)
    IN  IF q = U32_ZERO THEN <<d>> ELSE Append(Generation_fmt(q), d)

\* csv.rs:149: g is what Generation::from_ascii returned.
get_field_as_generation_some(g) ==
    IF g.ok THEN Ok(Some(g.val)) ELSE Err(g.err)

\* Record::get_field_as_generation
get_field_as_generation(record, index) ==
    IF get_field(record, index) # None
    THEN get_field_as_generation_some(
             Generation_from_ascii(get_field(record, index)[1]))
    ELSE Ok(None)

(***************************************************************************)
(* component.rs, image.rs: Component, Vendor, Entry                        *)
(***************************************************************************)
Component(name, generation) == [name |-> name, generation |-> generation]

\* Variant: the entries after the first line of the text.
ImageSbat_entries_rest(self) == Some(skip_empty_lines(self).string)

\* Variant: a missing generation read as the default generation.
Component_from_record_generation_default(name, generation) ==
    IF ~generation.ok
    THEN Err(generation.err)
    ELSE IF generation.val = None
    THEN Ok(Component(name, Generation_default))
    ELSE Ok(Component(name, generation.val[1]))

\* component.rs:37-41: generation is what get_field_as_generation returned.
Component_from_record_generation(name, generation) ==
    IF ~generation.ok
    THEN Err(generation.err)
    ELSE IF generation.val = None
    THEN Err(TooFewFields)
    ELSE Ok(Component(name, generation.val[1]))

\* Variant: the generation read from the last field of the record.
Component_from_record_last_field(record) ==
    IF get_field(record, 0) = None
    THEN Err(TooFewFields)
    ELSE Component_from_record_generation(
             get_field(record, 0)[1],
             get_field_as_generation(record, Len(record) - 1))

\* Variant: an empty name refused.
Component_from_record_named(record) ==
    IF get_field(record, 0) \in { None, Some(<<>>) }
    THEN Err(TooFewFields)
    ELSE Component_from_record_generation(get_field(record, 0)[1],
                                          get_field_as_generation(record, 1))

Component_from_record(record) ==
    IF get_field(record, 0) = None
    THEN Err(TooFewFields)
    ELSE Component_from_record_generation(get_field(record, 0)[1],
                                          get_field_as_generation(record, 1))

NUM_ENTRY_FIELDS == 6
MAX_HEADER_FIELDS == 3

Vendor(record) ==
    [name |-> get_field(record, 2),
     package_name |-> get_field(record, 3),
     version |-> get_field(record, 4),
     url |-> get_field(record, 5)]

Entry(component, vendor) == [component |-> component, vendor |-> vendor]

\* image.rs:66-74: component is what Component::from_record returned.
Entry_from_record_component(component, record) ==
    IF ~component.ok
    THEN Err(component.err)
    ELSE Ok(Entry(component.val, Vendor(record)))

Entry_from_record(record) ==
    Entry_from_record_component(Component_from_record(record), record)

(***************************************************************************)
(* image.rs, revocations.rs: parse                                         *)
(***************************************************************************)
\* The validation loop of parse (image.rs:116-121, revocations.rs:74-79):
\* every record must decode and hold a valid component; the first error
\* ends the loop.
RECURSIVE check_records(_, _)
check_records_component(component, line_iter, NUM_FIELDS) ==
    IF ~component.ok
    THEN Err(component.err)
    ELSE check_records(line_iter, NUM_FIELDS)

\* Variant: only the CSV decoding checked, not the components.
check_records_record_csv_only(r, NUM_FIELDS) ==
    IF r.item = None
    THEN Ok(<<>>)
    ELSE IF ~r.item[1].ok
    THEN Err(r.item[1].err)
    ELSE check_records(r.line_iter, NUM_FIELDS)

check_records_record(r, NUM_FIELDS) ==
    IF r.item = None
    THEN Ok(<<>>)
    ELSE IF ~r.item[1].ok
    THEN Err(r.item[1].err)
    ELSE check_records_component(Component_from_record(r.item[1].val),
                                 r.line_iter, NUM_FIELDS)

check_records(line_iter, NUM_FIELDS) ==
    check_records_record(CsvIter_next(line_iter, NUM_FIELDS), NUM_FIELDS)

\* Variant: the text is the value whatever the check found.
parse_checked_partial(checked, input) == Ok(input)

\* image.rs:123, revocations.rs:81: the validated text is the value.
parse_checked(checked, input) ==
    IF ~checked.ok THEN Err(checked.err) ELSE Ok(input)

\* ImageSbat::parse after trim_ascii_at_null
ImageSbat_parse_ascii(ascii) ==
    IF ~ascii.ok
    THEN Err(ascii.err)
    ELSE parse_checked(check_records(CsvIter_new(ascii.val), NUM_ENTRY_FIELDS),
                       ascii.val)

ImageSbat_parse(input) == ImageSbat_parse_ascii(trim_ascii_at_null(input))

\* RevocationSbat::parse after trim_ascii_at_null
RevocationSbat_parse_ascii(ascii) ==
    IF ~ascii.ok
    THEN Err(ascii.err)
    ELSE parse_checked(check_records(CsvIter_new(ascii.val), MAX_HEADER_FIELDS),
                       ascii.val)

RevocationSbat_parse(input) ==
    RevocationSbat_parse_ascii(trim_ascii_at_null(input))

(***************************************************************************)
(* Iterators and accessors.  A call that can reach an unwrap returns       *)
(* Panic when the unwrap fails and a record with panic = FALSE otherwise.  *)
(***************************************************************************)
Panic == [panic |-> TRUE]
Return(v) == [panic |-> FALSE, val |-> v]
Yield(item, line_iter) ==
    [panic |-> FALSE, item |-> item, line_iter |-> line_iter]

\* image.rs:92: Entry::from_record(&record).unwrap()
Entries_next_entry(entry, line_iter) ==
    IF ~entry.ok THEN Panic ELSE Yield(Some(entry.val), line_iter)

\* image.rs:87-92: r is what CsvIter::next returned.
Entries_next_record(r) ==
    IF r.item = None
    THEN Yield(None, r.line_iter)
    ELSE IF ~r.item[1].ok
    THEN Panic
    ELSE Entries_next_entry(Entry_from_record(r.item[1].val), r.line_iter)

\* Entries::next
Entries_next(line_iter) ==
    Entries_next_record(CsvIter_next(line_iter, NUM_ENTRY_FIELDS))

\* revocations.rs:50: Component::from_record(&record).unwrap()
RevokedComponents_next_component(component, line_iter) ==
    IF ~component.ok THEN Panic ELSE Yield(Some(component.val), line_iter)

\* revocations.rs:45-50: r is what CsvIter::next returned.
RevokedComponents_next_record(r) ==
    IF r.item = None
    THEN Yield(None, r.line_iter)
    ELSE IF ~r.item[1].ok
    THEN Panic
    ELSE RevokedComponents_next_component(
             Component_from_record(r.item[1].val), r.line_iter)

\* RevokedComponents::next
RevokedComponents_next(line_iter) ==
    RevokedComponents_next_record(CsvIter_next(line_iter, MAX_HEADER_FIELDS))

\* ImageSbat::entries, RevocationSbat::revoked_components
ImageSbat_entries(self) == CsvIter_new(self)

revoked_components(self) == CsvIter_new(self)

\* revocations.rs:111-112: r is what CsvIter::next returned.
RevocationSbat_date_record(r) ==
    IF r.item = None
    THEN Return(None)
    ELSE IF ~r.item[1].ok
    THEN Panic
    ELSE Return(get_field(r.item[1].val, 2))

\* RevocationSbat::date
RevocationSbat_date(self) ==
    RevocationSbat_date_record(CsvIter_next(CsvIter_new(self), MAX_HEADER_FIELDS))

\* Variant: an equal generation revoked too.
is_revoked_by_le(input, revoked_component) ==
    /\ input.name = revoked_component.name
    /\ ~U32_lt(revoked_component.generation, input.generation)

\* Variant: the revoked name matched as a prefix of the component's name.
is_revoked_by_prefix(input, revoked_component) ==
    /\ Len(revoked_component.name) <= Len(input.name)
    /\ SubSeq(input.name, 1, Len(revoked_component.name))
         = revoked_component.name
    /\ U32_lt(input.generation, revoked_component.generation)

\* The closure of is_component_revoked (revocations.rs:131-134).
is_revoked_by(input, revoked_component) ==
    /\ input.name = revoked_component.name
    /\ U32_lt(input.generation, revoked_component.generation)

\* Iterator::any over RevokedComponents: stops at the first match.
RECURSIVE any_revoked(_, _)
\* Variant: the first revoked component of the name decides.
any_revoked_step_first_named(r, input) ==
    IF r.panic
    THEN Panic
    ELSE IF r.item = None
    THEN Return(FALSE)
    ELSE IF input.name = r.item[1].name
    THEN Return(U32_lt(input.generation, r.item[1].generation))
    ELSE any_revoked(r.line_iter, input)

\* Variant: only the first revoked component is looked at.
any_revoked_step_first(r, input) ==
    IF r.panic
    THEN Panic
    ELSE IF r.item = None
    THEN Return(FALSE)
    ELSE Return(is_revoked_by(input, r.item[1]))

any_revoked_step(r, input) ==
    IF r.panic
    THEN Panic
    ELSE IF r.item = None
    THEN Return(FALSE)
    ELSE IF is_revoked_by(input, r.item[1])
    THEN Return(TRUE)
    ELSE any_revoked(r.line_iter, input)

any_revoked(line_iter, input) ==
    any_revoked_step(RevokedComponents_next(line_iter), input)

\* RevocationSbat::is_component_revoked
is_component_revoked(self, input) ==
    any_revoked(revoked_components(self), input)

Allowed == [kind |-> "Allowed"]
Revoked(entry) == [kind |-> "Revoked", entry |-> entry]

\* Iterator::find over Entries with the closure of validate_image
\* (revocations.rs:149-151): stops at the first revoked entry.
RECURSIVE find_revoked(_, _)
\* Variant: the search goes on and keeps the last revoked entry.
find_revoked_test_last(self, entry, revoked, line_iter) ==
    IF revoked.panic
    THEN Panic
    ELSE IF revoked.val /\ find_revoked(self, line_iter) \in { Panic, Return(None) }
    THEN Return(Some(entry))
    ELSE find_revoked(self, line_iter)

find_revoked_test(self, entry, revoked, line_iter) ==
    IF revoked.panic
    THEN Panic
    ELSE IF revoked.val
    THEN Return(Some(entry))
    ELSE find_revoked(self, line_iter)

find_revoked_step(self, r) ==
    IF r.panic
    THEN Panic
    ELSE IF r.item = None
    THEN Return(None)
    ELSE find_revoked_test(self, r.item[1],
                           is_component_revoked(self, r.item[1].component),
                           r.line_iter)

find_revoked(self, line_iter) ==
    find_revoked_step(self, Entries_next(line_iter))

\* revocations.rs:149-156: revoked_entry is what find returned.
validate_image_found(revoked_entry) ==
    IF revoked_entry.panic
    THEN Panic
    ELSE IF revoked_entry.val # None
    THEN Return(Revoked(revoked_entry.val[1]))
    ELSE Return(Allowed)

\* RevocationSbat::validate_image
validate_image(self, image_sbat) ==
    validate_image_found(find_revoked(self, ImageSbat_entries(image_sbat)))

(***************************************************************************)
(* The caller (fuzz/fuzz_targets/combo.rs): parse both inputs and, when    *)
(* both parsed, call date(), walk revoked_components(), call               *)
(* validate_image() and walk entries() with is_component_revoked().        *)
(***************************************************************************)
gen_unused ==
    /\ gen_text = <<>>
    /\ gen_val = U32_ZERO
    /\ gen_result = None

csv_unused ==
    /\ csv_input = <<>>
    /\ csv_num_fields = 0
    /\ csv_iter = None
    /\ csv_items = <<>>

section_unused ==
    /\ section_data = <<>>
    /\ section_len = 0
    /\ section = None

store_unused ==
    /\ store = None
    /\ store_result = None

extra_unused ==
    /\ written = None
    /\ reparsed = None
    /\ owned = None
    /\ owned_seen = None
    /\ lines_iter = None
    /\ line_items = <<>>

other_unused ==
    /\ csv_unused
    /\ section_unused
    /\ store_unused
    /\ extra_unused

InitCaller ==
    /\ pc = "input"
    /\ image = None
    /\ revocations = None
    /\ date = None
    /\ rc_iter = None
    /\ components = <<>>
    /\ result = None
    /\ entries_iter = None
    /\ entries = <<>>
    /\ verdicts = <<>>
    /\ panicked = FALSE

\* An unwrap failed: the caller is gone.
Panicked ==
    /\ panicked' = TRUE
    /\ pc' = "panicked"

\* combo.rs:10-13: ImageSbat::parse and RevocationSbat::parse.
Parse ==
    /\ pc = "input"
    /\ image' = Some(ImageSbat_parse(image_data))
    /\ revocations' = Some(RevocationSbat_parse(revocation_data))
    /\ pc' = IF image'[1].ok /\ revocations'[1].ok THEN "date" ELSE "done"
    /\ UNCHANGED <<image_data, revocation_data, date, rc_iter, components,
                   result, entries_iter, entries, verdicts, panicked,
                   gen_text, gen_val, gen_result, other_vars>>

DateReturned(d) ==
    IF d.panic
    THEN /\ Panicked
         /\ UNCHANGED <<date, rc_iter>>
    ELSE /\ date' = Some(d.val)
         /\ rc_iter' = revoked_components(revocations[1].val)
         /\ pc' = "revoked_components"
         /\ UNCHANGED panicked

\* combo.rs:17: revocations.date(); then revoked_components() is created.
Date ==
    /\ pc = "date"
    /\ DateReturned(RevocationSbat_date(revocations[1].val))
    /\ UNCHANGED <<image_data, revocation_data, image, revocations, components,
                   result, entries_iter, entries, verdicts,
                   gen_text, gen_val, gen_result, other_vars>>

RevokedComponentsReturned(r) ==
    IF r.panic
    THEN /\ Panicked
         /\ UNCHANGED <<rc_iter, components>>
    ELSE /\ rc_iter' = r.line_iter
         /\ components' = IF r.item = None
                          THEN components
                          ELSE Append(components, r.item[1])
         /\ pc' = IF r.item = None THEN "validate_image" ELSE pc
         /\ UNCHANGED panicked

\* combo.rs:18: one call of RevokedComponents::next.
RevokedComponentsNext ==
    /\ pc = "revoked_components"
    /\ RevokedComponentsReturned(RevokedComponents_next(rc_iter))
    /\ UNCHANGED <<image_data, revocation_data, image, revocations, date,
                   result, entries_iter, entries, verdicts,
                   gen_text, gen_val, gen_result, other_vars>>

ValidateImageReturned(v) ==
    IF v.panic
    THEN /\ Panicked
         /\ UNCHANGED <<result, entries_iter>>
    ELSE /\ result' = Some(v.val)
         /\ entries_iter' = ImageSbat_entries(image[1].val)
         /\ pc' = "entries"
         /\ UNCHANGED panicked

\* combo.rs:20: revocations.validate_image(image); then entries() is created.
ValidateImage ==
    /\ pc = "validate_image"
    /\ ValidateImageReturned(validate_image(revocations[1].val, image[1].val))
    /\ UNCHANGED <<image_data, revocation_data, image, revocations, date,
                   rc_iter, components, entries, verdicts,
                   gen_text, gen_val, gen_result, other_vars>>

EntryChecked(r, revoked) ==
    IF revoked.panic
    THEN /\ Panicked
         /\ UNCHANGED <<entries_iter, entries, verdicts>>
    ELSE /\ entries_iter' = r.line_iter
         /\ entries' = Append(entries, r.item[1])
         /\ verdicts' = Append(verdicts, revoked.val)
         /\ UNCHANGED <<pc, panicked>>

EntriesReturned(r) ==
    IF r.panic
    THEN /\ Panicked
         /\ UNCHANGED <<entries_iter, entries, verdicts>>
    ELSE IF r.item = None
    THEN /\ entries_iter' = r.line_iter
         /\ pc' = "done"
         /\ UNCHANGED <<entries, verdicts, panicked>>
    ELSE EntryChecked(r, is_component_revoked(revocations[1].val,
                                              r.item[1].component))

\* combo.rs:21-23: one call of Entries::next and, for the entry it yields,
\* is_component_revoked.
EntriesNext ==
    /\ pc = "entries"
    /\ EntriesReturned(Entries_next(entries_iter))
    /\ UNCHANGED <<image_data, revocation_data, image, revocations, date,
                   rc_iter, components, result,
                   gen_text, gen_val, gen_result, other_vars>>

(***************************************************************************)
(* Spec: the caller on inputs made of well-formed lines.                   *)
(***************************************************************************)
\* The most lines the two inputs hold together.
MaxLines == 3

\* Component names "a", "A" and "a.a".
Names == { <<97>>, <<65>>, <<97, 46, 97>> }

Line(name, generation) == name \o <<Comma>> \o generation

\* Image lines: every name with the generations "1", "2" and "10".
ImageLines ==
    { Line(name, generation) :
        name \in Names, generation \in { <<49>>, <<50>>, <<49, 48>> } }

\* Revocation lines: every name with the generations "2" and "10", and the
\* line "a,2,d" that carries a third field.
RevocationLines ==
    { Line(name, generation) :
        name \in Names, generation \in { <<50>>, <<49, 48>> } }
    \cup { <<97, 44, 50, 44, 100>> }

\* The texts of exactly n of the lines, each line but the last ended by "\n".
RECURSIVE Texts(_, _)
Texts(lines, n) ==
    IF n = 0
    THEN { <<>> }
    ELSE IF n = 1
    THEN lines
    ELSE { l \o <<LineFeed>> \o t : l \in lines, t \in Texts(lines, n - 1) }

Init ==
    /\ \E i \in 0..MaxLines :
         \E r \in 0..(MaxLines - i) :
            /\ image_data \in Texts(ImageLines, i)
            /\ revocation_data \in Texts(RevocationLines, r)
    /\ InitCaller
    /\ gen_unused
    /\ other_unused

Next ==
    \/ Parse
    \/ Date
    \/ RevokedComponentsNext
    \/ ValidateImage
    \/ EntriesNext

Spec == Init /\ [][Next]_vars

(***************************************************************************)
(* Validation against the collected components and entries (Spec).         *)
(***************************************************************************)
\* Some component of the revocation list has the name of c and a generation
\* above the generation of c.  The list is the one the caller collected, so
\* this is meant where the walk over revoked_components has ended.
RevokedBy(c) ==
    \E i \in 1..Len(components) :
        /\ components[i].name = c.name
        /\ U32_lt(c.generation, components[i].generation)

\* The place of the first entry of the image that the list revokes, 0 when
\* the list revokes none.
FirstRevokedIndex ==
    IF \E k \in 1..Len(entries) : RevokedBy(entries[k].component)
    THEN CHOOSE k \in 1..Len(entries) :
            /\ RevokedBy(entries[k].component)
            /\ \A j \in 1..(k - 1) : ~RevokedBy(entries[j].component)
    ELSE 0

\* C1: validate_image returns Revoked with the first entry, in the order of
\* the image text, that the revocation list revokes, and Allowed exactly
\* when the list revokes no entry.
C1_FirstRevokedEntryReported ==
    (pc = "done" /\ result # None) =>
        IF FirstRevokedIndex = 0
        THEN result = Some(Allowed)
        ELSE result = Some(Revoked(entries[FirstRevokedIndex]))

\* Two different entries are revoked and the earlier one is reported.
C1_Witness ==
    /\ pc = "done"
    /\ result # None
    /\ \E i \in 1..Len(entries) :
         \E j \in (i + 1)..Len(entries) :
            /\ entries[i] # entries[j]
            /\ RevokedBy(entries[i].component)
            /\ RevokedBy(entries[j].component)
            /\ result = Some(Revoked(entries[i]))

\* C2: is_component_revoked(c) is true exactly when some revoked component
\* has the name of c and a strictly greater generation; an equal or a lower
\* generation does not revoke.
C2_RevokedIffSameNameLowerGeneration ==
    \A k \in 1..Len(verdicts) :
        verdicts[k] <=> RevokedBy(entries[k].component)

\* The first revoked component has the entry's name and a generation that
\* is not above the entry's; the second one revokes the entry.
C2_Witness ==
    /\ pc = "done"
    /\ Len(components) = 2
    /\ \E k \in 1..Len(verdicts) :
         /\ verdicts[k]
         /\ components[1].name = entries[k].component.name
         /\ ~U32_lt(entries[k].component.generation, components[1].generation)
         /\ components[2].name = entries[k].component.name
         /\ U32_lt(entries[k].component.generation, components[2].generation)

Dates == { <<>>, <<Comma, 100>>, <<Comma, 50, 48>>, <<Comma>> }

FirstLineEnd(t) ==
    IF position(t, LineFeed) = 0 THEN Len(t) ELSE position(t, LineFeed) - 1

\* The text t with the third field of its first record replaced by d; the
\* first two fields and every other line are kept.
SetDate(t, d) ==
    split(SubSeq(t, 1, FirstLineEnd(t)), Comma)[1]
    \o <<Comma>>
    \o split(SubSeq(t, 1, FirstLineEnd(t)), Comma)[2]
    \o d
    \o SubSeq(t, FirstLineEnd(t) + 1, Len(t))

\* The list parsed from other gives the verdicts the caller got.
SameVerdicts(other) ==
    /\ other.ok
    /\ validate_image(other.val, image[1].val) = Return(result[1])
    /\ \A k \in 1..Len(entries) :
         is_component_revoked(other.val, entries[k].component)
            = Return(verdicts[k])

\* C4: the date is never consulted.  Revocation lists that differ only in
\* the third field of the first record give the same validate_image result
\* for the image and the same is_component_revoked result for its entries.
C4_DateNeverConsulted ==
    (pc = "done" /\ result # None /\ revocation_data # <<>>) =>
        \A d \in Dates :
            SameVerdicts(RevocationSbat_parse(SetDate(revocation_data, d)))

\* The list carries a date and revokes an entry of the image.
C4_Witness ==
    /\ pc = "done"
    /\ date = Some(Some(<<100>>))
    /\ result # None
    /\ result[1] # Allowed
    /\ \E k \in 1..Len(verdicts) : verdicts[k]

(***************************************************************************)
(* SpecBytes: the caller on arbitrary bytes.  The inputs are built one     *)
(* byte at a time: the same bytes for both parsers, or the bytes of one    *)
(* input against a fixed text for the other.                               *)
(***************************************************************************)
MaxBytes == 4

\* NUL, "\n", "\r", ",", "0", "1", "\", "a" and the non-ASCII 0x80.
Bytes == { 0, 10, 13, 44, 48, 49, 92, 97, 128 }

\* The fixed texts: the image "a,1" and the revocation list "a,2".
FixedImage == <<97, 44, 49>>
FixedRevocations == <<97, 44, 50>>

InitBytes ==
    /\ \/ image_data = <<>> /\ revocation_data = <<>>
       \/ image_data = <<>> /\ revocation_data = FixedRevocations
       \/ image_data = FixedImage /\ revocation_data = <<>>
    /\ InitCaller
    /\ gen_unused
    /\ other_unused

AppendBytes(image_byte, revocation_byte) ==
    /\ pc = "input"
    /\ image_data' = image_data \o image_byte
    /\ revocation_data' = revocation_data \o revocation_byte
    /\ UNCHANGED <<pc, image, revocations, date, rc_iter, components, result,
                   entries_iter, entries, verdicts, panicked,
                   gen_text, gen_val, gen_result, other_vars>>

\* One more byte for both inputs.
AppendByte(b) ==
    /\ image_data = revocation_data
    /\ Len(image_data) < MaxBytes
    /\ AppendBytes(<<b>>, <<b>>)

\* One more byte for the image, the revocation list being the fixed one.
AppendImageByte(b) ==
    /\ revocation_data = FixedRevocations
    /\ Len(image_data) < MaxBytes
    /\ AppendBytes(<<b>>, <<>>)

\* One more byte for the revocation list, the image being the fixed one.
AppendRevocationByte(b) ==
    /\ image_data = FixedImage
    /\ Len(revocation_data) < MaxBytes
    /\ AppendBytes(<<>>, <<b>>)

NextBytes ==
    \/ \E b \in Bytes : AppendByte(b)
    \/ \E b \in Bytes : AppendImageByte(b)
    \/ \E b \in Bytes : AppendRevocationByte(b)
    \/ Parse
    \/ Date
    \/ RevokedComponentsNext
    \/ ValidateImage
    \/ EntriesNext

SpecBytes == InitBytes /\ [][NextBytes]_vars

(***************************************************************************)
(* Parsing of arbitrary bytes (SpecBytes).                                 *)
(***************************************************************************)
\* C5: nothing panics.  parse returns Ok or one of the four ParseErrors on
\* every input, and once both parses succeeded date, revoked_components,
\* validate_image and entries run to their end without a failed unwrap.
C5_NoPanic ==
    /\ ~panicked
    /\ pc # "panicked"
    /\ \A r \in { image, revocations } :
         (r # None /\ ~r[1].ok) =>
            r[1].err.kind \in { "InvalidAscii", "SpecialChar",
                                "InvalidGeneration", "TooFewFields" }

\* Two different inputs parsed and every iterator was walked to its end,
\* over an image of which an entry is revoked.
C5_Witness ==
    /\ pc = "done"
    /\ ~panicked
    /\ image_data # revocation_data
    /\ image # None
    /\ image[1].ok
    /\ revocations[1].ok
    /\ date # None
    /\ result # None
    /\ result[1] # Allowed
    /\ Len(components) >= 1
    /\ Len(entries) >= 1

\* The longest prefix of data that holds no NUL.
BeforeNull(data) ==
    SubSeq(data, 1,
           CHOOSE n \in 0..Len(data) :
              /\ \A j \in 1..n : data[j] # Null
              /\ n < Len(data) => data[n + 1] = Null)

\* C6: nothing at or after the first NUL is read.  Parsing x, a NUL and any
\* bytes y gives what parsing x alone gives, the same value or the same
\* error, for the image parser and for the revocation parser.
C6_NothingReadPastNull ==
    /\ image # None => image[1] = ImageSbat_parse(BeforeNull(image_data))
    /\ revocations # None =>
          revocations[1] = RevocationSbat_parse(BeforeNull(revocation_data))

\* A parse succeeded and gave an entry although a non-ASCII byte follows
\* the NUL.
C6_Witness ==
    /\ pc = "done"
    /\ image # None
    /\ image[1].ok
    /\ Len(entries) >= 1
    /\ \E i \in 1..Len(image_data) :
         /\ image_data[i] = Null
         /\ \E j \in (i + 1)..Len(image_data) : image_data[j] > MaxAscii

\* Some byte above 0x7F stands before every NUL of data.
NonAsciiBeforeNull(data) ==
    \E i \in 1..Len(data) :
        /\ data[i] > MaxAscii
        /\ \A j \in 1..(i - 1) : data[j] # Null

\* C7: parse fails with InvalidAscii exactly when a byte of 0x80 or more
\* stands before the first NUL, or anywhere when there is no NUL.
C7_InvalidAsciiIffNonAsciiBeforeNull ==
    /\ image # None =>
          ((~image[1].ok /\ image[1].err = InvalidAscii)
              <=> NonAsciiBeforeNull(image_data))
    /\ revocations # None =>
          ((~revocations[1].ok /\ revocations[1].err = InvalidAscii)
              <=> NonAsciiBeforeNull(revocation_data))

\* InvalidAscii is returned for a text whose non-ASCII byte comes after a
\* disallowed character and before a NUL.
C7_Witness ==
    /\ image # None
    /\ ~image[1].ok
    /\ image[1].err = InvalidAscii
    /\ \E i \in 2..Len(image_data) :
         /\ ~is_char_allowed_in_field(image_data[1])
         /\ image_data[i] > MaxAscii
         /\ \E j \in (i + 1)..Len(image_data) : image_data[j] = Null

\* The text without its leading "0"s.
RECURSIVE StripZeros(_)
StripZeros(t) ==
    IF t # <<>> /\ Head(t) = Zero THEN StripZeros(Tail(t)) ELSE t

IsDigits(t) == \A i \in 1..Len(t) : t[i] \in 48..57

\* C10 as stated: no record with an empty field 0 is accepted, so that no
\* Component with an empty name is ever yielded.
C10_NameNeverEmpty ==
    /\ \A k \in 1..Len(entries) : entries[k].component.name # <<>>
    /\ \A i \in 1..Len(components) : components[i].name # <<>>

\* The text is "," and then the digits of a number of 1..999999999.
EmptyNameLine(data) ==
    /\ data # <<>>
    /\ data[1] = Comma
    /\ IsDigits(Tail(data))
    /\ StripZeros(Tail(data)) # <<>>
    /\ Len(data) <= 10

\* The components are the single Component of the line data, with the
\* empty name.
EmptyNameComponent(found, data) ==
    /\ Len(found) = 1
    /\ found[1].name = <<>>
    /\ Generation_fmt(found[1].generation) = StripZeros(Tail(data))

\* C10, amended: an empty name is accepted.  A text made of "," and the
\* digits of a number of 1..999999999 parses, as an image and as a
\* revocation list, to one Component with the empty name and that
\* generation.
C10_EmptyNameAccepted ==
    /\ (image # None /\ EmptyNameLine(image_data)) =>
          /\ image[1].ok
          /\ pc = "done" /\ revocations[1].ok =>
                EmptyNameComponent([k \in 1..Len(entries) |->
                                       entries[k].component], image_data)
    /\ (revocations # None /\ EmptyNameLine(revocation_data)) =>
          /\ revocations[1].ok
          /\ pc = "done" /\ image[1].ok =>
                EmptyNameComponent(components, revocation_data)

\* The line ",1" has given a Component with the empty name.
C10_Witness ==
    /\ pc = "done"
    /\ image_data = <<Comma, 49>>
    /\ image[1].ok
    /\ Len(entries) = 1
    /\ entries[1].component.name = <<>>
    /\ entries[1].component.generation = Generation_default

(***************************************************************************)
(* SpecGen: Generation::new, Generation::from_ascii, Generation::default   *)
(* and Component::from_record on a record whose field 1 is the text.       *)
(***************************************************************************)
MaxGenLen == 3

\* " ", "+", "-", "0", "1", "9" and "a".
GenBytes == { 32, 43, 45, 48, 49, 57, 97 }

RECURSIVE GenStrings(_)
GenStrings(n) ==
    IF n = 0
    THEN { <<>> }
    ELSE GenStrings(n - 1)
         \cup { Append(t, b) : t \in GenStrings(n - 1), b \in GenBytes }

\* Texts around the limbs and the end of the u32 range: "65535", "65536",
\* "4294967294", "4294967295", "4294967296", "4294967300", "5000000000",
\* "04294967295", "+4294967295", "+4294967296", "42949672950",
\* "00000000000", "00000000001".
GenTexts ==
    GenStrings(MaxGenLen)
    \cup { <<54, 53, 53, 51, 53>>,
           <<54, 53, 53, 51, 54>>,
           <<52, 50, 57, 52, 57, 54, 55, 50, 57, 52>>,
           <<52, 50, 57, 52, 57, 54, 55, 50, 57, 53>>,
           <<52, 50, 57, 52, 57, 54, 55, 50, 57, 54>>,
           <<52, 50, 57, 52, 57, 54, 55, 51, 48, 48>>,
           <<53, 48, 48, 48, 48, 48, 48, 48, 48, 48>>,
           <<48, 52, 50, 57, 52, 57, 54, 55, 50, 57, 53>>,
           <<43, 52, 50, 57, 52, 57, 54, 55, 50, 57, 53>>,
           <<43, 52, 50, 57, 52, 57, 54, 55, 50, 57, 54>>,
           <<52, 50, 57, 52, 57, 54, 55, 50, 57, 53, 48>>,
           <<48, 48, 48, 48, 48, 48, 48, 48, 48, 48, 48>>,
           <<48, 48, 48, 48, 48, 48, 48, 48, 48, 48, 49>> }

\* The u32 values 0, 1, 2, 65535, 65536, 2^31 and 2^32 - 1.
GenVals ==
    { U32(0, 0), U32(0, 1), U32(0, 2), U32(0, Limb - 1), U32(1, 0),
      U32(Limb \div 2, 0), U32_MAX }

InitGen ==
    /\ image_data = <<>>
    /\ revocation_data = <<>>
    /\ InitCaller
    /\ gen_text \in GenTexts
    /\ gen_val \in GenVals
    /\ gen_result = None
    /\ other_unused

GenReturns(op, res) ==
    /\ pc = "input"
    /\ pc' = "done"
    /\ gen_result' = Some([op |-> op, res |-> res])
    /\ UNCHANGED <<image_data, revocation_data, image, revocations, date,
                   rc_iter, components, result, entries_iter, entries,
                   verdicts, panicked, gen_text, gen_val, other_vars>>

GenerationNew == GenReturns("new", Generation_new(gen_val))

GenerationFromAscii == GenReturns("from_ascii", Generation_from_ascii(gen_text))

GenerationDefault == GenReturns("default", Ok(Generation_default))

\* Component::from_record on the record of the line "a,<text>".
ComponentFromRecord ==
    GenReturns("from_record", Component_from_record(<< <<97>>, gen_text >>))

NextGen ==
    \/ GenerationNew
    \/ GenerationFromAscii
    \/ GenerationDefault
    \/ ComponentFromRecord

SpecGen == InitGen /\ [][NextGen]_vars

(***************************************************************************)
(* Generations (SpecGen).                                                  *)
(***************************************************************************)
\* The digits of 2^32 - 1, "4294967295".
U32MaxDigits == <<52, 50, 57, 52, 57, 54, 55, 50, 57, 53>>

\* The digits t, without leading zero, denote a number above 2^32 - 1.
DigitsExceedU32(t) ==
    \/ Len(t) > Len(U32MaxDigits)
    \/ /\ Len(t) = Len(U32MaxDigits)
       /\ \E i \in 1..Len(t) :
            /\ t[i] > U32MaxDigits[i]
            /\ \A j \in 1..(i - 1) : t[j] = U32MaxDigits[j]

\* The text without the one "+" that may lead it.
Unsigned(t) == IF t # <<>> /\ t[1] = Plus THEN Tail(t) ELSE t

\* The text is a base-10 number, one or more digits with at most one "+"
\* before them, and the number is in 1..2^32 - 1.
ValidGenerationText(t) ==
    /\ Unsigned(t) # <<>>
    /\ IsDigits(Unsigned(t))
    /\ StripZeros(Unsigned(t)) # <<>>
    /\ ~DigitsExceedU32(StripZeros(Unsigned(t)))

\* The u32 is in 1..2^32 - 1.
InGenerationRange(g) ==
    /\ g.hi \in 0..(Limb - 1)
    /\ g.lo \in 0..(Limb - 1)
    /\ g # U32_ZERO

\* res is the generation that the digits of the text denote.
DenotedBy(res, t) ==
    /\ res.ok
    /\ InGenerationRange(res.val)
    /\ Generation_fmt(to_u32(res.val)) = StripZeros(Unsigned(t))

\* What C9 states of the result res of the operation op.
GenerationRange(op, res) ==
    /\ op = "new" =>
          IF gen_val = U32_ZERO
          THEN res = Err(InvalidGeneration)
          ELSE res = Ok(gen_val) /\ InGenerationRange(res.val)
    /\ op = "from_ascii" =>
          IF ValidGenerationText(gen_text)
          THEN DenotedBy(res, gen_text)
          ELSE res = Err(InvalidGeneration)
    /\ op = "default" => res = Ok(U32(0, 1))

\* C9: a Generation is an integer of 1..2^32 - 1.  new(v) fails with
\* InvalidGeneration exactly when v is 0; from_ascii fails with
\* InvalidGeneration when the text is empty, is not a base-10 number, is
\* zero or is above 2^32 - 1, and gives the denoted value otherwise; the
\* default generation is 1.
C9_GenerationRange ==
    gen_result # None => GenerationRange(gen_result[1].op, gen_result[1].res)

\* from_ascii gave 2^32 - 1 for "4294967295".
C9_Witness ==
    /\ gen_text = U32MaxDigits
    /\ gen_result = Some([op |-> "from_ascii", res |-> Ok(U32_MAX)])

\* The text is "+" and one or more digits.
PlusDigits(t) ==
    /\ Len(t) >= 2
    /\ t[1] = Plus
    /\ IsDigits(Tail(t))

HasSpace(t) == \E i \in 1..Len(t) : t[i] = 32

\* C8 as stated: a record whose generation field is "+" and digits, or
\* holds a space, is refused with InvalidGeneration.
C8_PlusAndSpaceRejected ==
    ( /\ gen_result # None
      /\ gen_result[1].op = "from_record"
      /\ PlusDigits(gen_text) \/ HasSpace(gen_text) )
    => gen_result[1].res = Err(InvalidGeneration)

\* What the amended C8 states of the result res of Component::from_record.
PlusSkippedSpaceRejected(res) ==
    /\ HasSpace(gen_text) => res = Err(InvalidGeneration)
    /\ PlusDigits(gen_text) =>
          IF ValidGenerationText(Tail(gen_text))
          THEN /\ res.ok
               /\ res.val.name = <<97>>
               /\ Generation_fmt(res.val.generation)
                    = StripZeros(Tail(gen_text))
          ELSE res = Err(InvalidGeneration)

\* C8, amended: a generation field that holds a space is refused with
\* InvalidGeneration, and a field "+" and digits d is read as d is:
\* accepted with the generation d denotes when that is in 1..2^32 - 1,
\* refused with InvalidGeneration otherwise.
C8_SpaceRejectedPlusSkipped ==
    (gen_result # None /\ gen_result[1].op = "from_record")
    => PlusSkippedSpaceRejected(gen_result[1].res)

\* The record of the line "a,+1" gave the component "a" at generation 1.
C8_Witness ==
    /\ gen_text = <<Plus, 49>>
    /\ gen_result
         = Some([op |-> "from_record",
                 res |-> Ok(Component(<<97>>, U32(0, 1)))])

(***************************************************************************)
(* SpecFields: the caller on texts of one or two lines of numbered        *)
(* fields.  The same text is handed to both parsers.                       *)
(***************************************************************************)
\* The most fields a text holds, over all its lines.
MaxFields == 8

\* Disallowed characters, one for each numbered field: " % & = ` | and the
\* controls 9, 11, 12.
BadChars == <<34, 37, 38, 61, 96, 124, 9, 11, 12>>

\* The field numbered i, at place p of its line: a digit at the place of
\* the generation, a letter elsewhere, and when i is in B the disallowed
\* character of the field and a "\" after it.
Field(i, p, B) ==
    (IF p = 2 THEN <<Zero + i>> ELSE <<96 + i>>)
    \o (IF i \in B THEN <<BadChars[i], 92>> ELSE <<>>)

\* The line of the fields numbered first..last.
RECURSIVE FieldLine(_, _, _)
FieldLine(first, last, B) ==
    IF last = first
    THEN Field(first, 1, B)
    ELSE FieldLine(first, last - 1, B)
         \o <<Comma>> \o Field(last, last - first + 1, B)

\* The text of n fields: one line when s = n, else a line of the first s
\* fields and a line of the others.
FieldText(n, s, B) ==
    IF s = n
    THEN FieldLine(1, n, B)
    ELSE FieldLine(1, s, B) \o <<LineFeed>> \o FieldLine(s + 1, n, B)

FieldTexts ==
    UNION { UNION { { FieldText(n, s, B) : B \in SUBSET (1..n) } :
                    s \in 1..n } :
            n \in 1..MaxFields }

InitFields ==
    /\ image_data \in FieldTexts
    /\ revocation_data = image_data
    /\ InitCaller
    /\ gen_unused
    /\ other_unused

SpecFields == InitFields /\ [][Next]_vars

(***************************************************************************)
(* Records and their fields (SpecFields).                                  *)
(***************************************************************************)
\* The lines of a text that holds no blank line and no "\r".
TextLines(t) == split(t, LineFeed)

IsClean(line) ==
    \A i \in 1..Len(line) :
        line[i] = Comma \/ is_char_allowed_in_field(line[i])

HasComma(line) == \E i \in 1..Len(line) : line[i] = Comma

\* Some line of the text has no comma.
SomeLineWithoutComma(t) ==
    \E i \in 1..Len(TextLines(t)) : ~HasComma(TextLines(t)[i])

\* The first line without a comma comes before any disallowed character.
FirstFailureIsMissingComma(t) ==
    \E i \in 1..Len(TextLines(t)) :
        /\ ~HasComma(TextLines(t)[i])
        /\ \A j \in 1..i : IsClean(TextLines(t)[j])
        /\ \A j \in 1..(i - 1) : HasComma(TextLines(t)[j])

\* Every line has a comma and no disallowed character.
AllLinesComplete(t) ==
    \A i \in 1..Len(TextLines(t)) :
        HasComma(TextLines(t)[i]) /\ IsClean(TextLines(t)[i])

\* The field numbered index (from 0) of the line, None when the line has
\* fewer fields.
OptionalField(line, index) ==
    IF index < Len(split(line, Comma))
    THEN Some(split(line, Comma)[index + 1])
    ELSE None

\* What C11 states of the result res of parsing the text t.
MissingGenerationRefused(res, t) ==
    /\ SomeLineWithoutComma(t) => ~res.ok
    /\ FirstFailureIsMissingComma(t) => res = Err(TooFewFields)
    /\ AllLinesComplete(t) => res.ok

\* C11: a line without a comma makes the parse fail, with TooFewFields when
\* nothing before the end of that line fails otherwise, for the image and
\* for the revocation list; fields 2 to 5 of an image entry are optional:
\* an absent one gives None in the Vendor, a present one its text, and
\* their absence never fails the parse.
C11_MissingGenerationRefused ==
    /\ image # None => MissingGenerationRefused(image[1], image_data)
    /\ revocations # None =>
          MissingGenerationRefused(revocations[1], revocation_data)
    /\ pc = "done" =>
          \A k \in 1..Len(entries) :
              entries[k].vendor
                = [name |-> OptionalField(TextLines(image_data)[k], 2),
                   package_name |->
                       OptionalField(TextLines(image_data)[k], 3),
                   version |-> OptionalField(TextLines(image_data)[k], 4),
                   url |-> OptionalField(TextLines(image_data)[k], 5)]

\* A text whose first line is a full record and whose second line has no
\* comma was refused with TooFewFields by both parsers.
C11_Witness ==
    /\ pc = "done"
    /\ Len(TextLines(image_data)) = 2
    /\ HasComma(TextLines(image_data)[1])
    /\ ~HasComma(TextLines(image_data)[2])
    /\ image[1] = Err(TooFewFields)
    /\ revocations[1] = Err(TooFewFields)

(***************************************************************************)
(* SpecCsv: a CsvIter of 3 or of 6 fields walked over a text, as           *)
(* tests::parse_simple of csv.rs walks it, and the two parsers on the      *)
(* same text.                                                              *)
(***************************************************************************)
\* The most calls of next made once the iterator has returned None.
MaxCallsAfterEnd == 2

\* Every ASCII character alone and between "a" and "b".
CharTexts ==
    { <<c>> : c \in 0..MaxAscii } \cup { <<97, c, 98>> : c \in 0..MaxAscii }

CsvTexts == FieldTexts \cup CharTexts

InitCsv ==
    /\ csv_input \in CsvTexts
    /\ csv_num_fields \in { MAX_HEADER_FIELDS, NUM_ENTRY_FIELDS }
    /\ csv_iter = CsvIter_new(csv_input)
    /\ csv_items = <<>>
    /\ image_data = csv_input
    /\ revocation_data = csv_input
    /\ InitCaller
    /\ gen_unused
    /\ section_unused
    /\ store_unused
    /\ extra_unused

CsvReturned(r) ==
    /\ csv_items' = Append(csv_items, r.item)
    /\ csv_iter' = r.line_iter

\* One call of CsvIter::next.
CsvNext ==
    /\ Cardinality({ k \in 1..Len(csv_items) : csv_items[k] = None })
         < MaxCallsAfterEnd
    /\ CsvReturned(CsvIter_next(csv_iter, csv_num_fields))
    /\ UNCHANGED <<image_data, revocation_data, pc, image, revocations, date,
                   rc_iter, components, result, entries_iter, entries,
                   verdicts, panicked, gen_text, gen_val, gen_result,
                   csv_input, csv_num_fields, section_vars, store_vars,
                   extra_vars>>

\* ImageSbat::parse and RevocationSbat::parse on the text; other_vars is
\* written out since csv_iter and csv_items are not the caller's.
NextCsv ==
    \/ CsvNext
    \/ Parse

SpecCsv == InitCsv /\ [][NextCsv]_vars

(***************************************************************************)
(* The CSV decoder (SpecCsv).                                              *)
(***************************************************************************)
\* The character at place i is neither a separator nor allowed in a field,
\* nor the "\r" of a line end.
IsOffending(t, i) ==
    /\ t[i] \notin { Comma, LineFeed }
    /\ ~is_char_allowed_in_field(t[i])
    /\ ~(t[i] = CarriageReturn /\ i < Len(t) /\ t[i + 1] = LineFeed)

\* The place of the first such character, 0 when there is none.
FirstOffending(t) ==
    IF \E i \in 1..Len(t) : IsOffending(t, i)
    THEN CHOOSE i \in 1..Len(t) :
            IsOffending(t, i) /\ \A j \in 1..(i - 1) : ~IsOffending(t, j)
    ELSE 0

\* The lines that end before place i and are not blank.
LinesBefore(t, i) ==
    { j \in 1..(i - 1) :
        /\ t[j] = LineFeed
        /\ j > 1
        /\ t[j - 1] # LineFeed
        /\ ~(t[j - 1] = CarriageReturn /\ (j = 2 \/ t[j - 2] = LineFeed)) }

IsErr(item) == item # None /\ ~item[1].ok

\* What C12 states of the items of the iterator, k being the place of an
\* error among them.
ErrorEndsIteration(k) ==
    /\ FirstOffending(csv_input) # 0
    /\ csv_items[k]
         = Some(Err(SpecialChar(csv_input[FirstOffending(csv_input)])))
    /\ k = Cardinality(LinesBefore(csv_input, FirstOffending(csv_input))) + 1
    /\ \A j \in 1..(k - 1) : csv_items[j] # None /\ csv_items[j][1].ok
    /\ \A j \in (k + 1)..Len(csv_items) : csv_items[j] = None
    /\ csv_iter = None

\* Every line before the first offending character holds a comma; in the
\* texts of SpecCsv a generation follows the first comma of a line.
CompleteLinesBefore(t, i) ==
    \A j \in LinesBefore(t, i) :
        \E h \in 1..(j - 1) :
            t[h] = Comma /\ \A g \in h..j : g = j \/ t[g] # LineFeed

\* C12: the first disallowed character ends the decoding.  The iterator
\* yields the records of the lines before it, then Err(SpecialChar(c)) for
\* the first disallowed character c of the text in reading order, also when
\* c stands in a field beyond the field maximum, then None for ever; no
\* error is yielded otherwise; and both parsers return that error for a
\* text without NUL whenever the lines before it are records with a
\* generation.
C12_FirstSpecialCharEndsDecoding ==
    /\ \A k \in 1..Len(csv_items) :
          IsErr(csv_items[k]) => ErrorEndsIteration(k)
    /\ ( /\ FirstOffending(csv_input) # 0
         /\ \E k \in 1..Len(csv_items) : csv_items[k] = None )
       => \E k \in 1..Len(csv_items) : IsErr(csv_items[k])
    /\ ( /\ image # None
         /\ \A i \in 1..Len(csv_input) : csv_input[i] # Null
         /\ FirstOffending(csv_input) # 0
         /\ CompleteLinesBefore(csv_input, FirstOffending(csv_input)) )
       => /\ image[1]
              = Err(SpecialChar(csv_input[FirstOffending(csv_input)]))
          /\ revocations[1] = image[1]

\* After a record, a line whose first disallowed character stands in a
\* field beyond the third, before another one, gave the error for that
\* character to an iterator of 3 fields, then None twice; both parsers
\* returned the error.
C12_Witness ==
    /\ csv_input = FieldText(7, 2, {6, 7})
    /\ csv_num_fields = MAX_HEADER_FIELDS
    /\ csv_items = << Some(Ok(<< <<97>>, <<50>> >>)),
                      Some(Err(SpecialChar(BadChars[6]))),
                      None, None >>
    /\ image = Some(Err(SpecialChar(BadChars[6])))
    /\ revocations = image

IsNonBlank(line) == line # <<>>

\* The lines that give a record, for a text without "\r\n".
RecordLines(t) == SelectSeq(split(t, LineFeed), IsNonBlank)

\* The first fields of a line, at most max_fields of them.
FirstFields(line, max_fields) ==
    SubSeq(split(line, Comma), 1,
           IF Len(split(line, Comma)) < max_fields
           THEN Len(split(line, Comma))
           ELSE max_fields)

\* C13: fields beyond the field maximum are dropped without an error.  The
\* k-th record the iterator yields holds the first max_fields fields of the
\* k-th line, in order, and a text without a disallowed character gives one
\* record for each of its lines, whatever the number of their fields
\* (max_fields is 3 or 6).
C13_ExtraFieldsDropped ==
    /\ \A k \in 1..Len(csv_items) :
          (csv_items[k] # None /\ csv_items[k][1].ok) =>
              /\ k <= Len(RecordLines(csv_input))
              /\ csv_items[k][1].val
                   = FirstFields(RecordLines(csv_input)[k], csv_num_fields)
    /\ ( /\ FirstOffending(csv_input) = 0
         /\ \E k \in 1..Len(csv_items) : csv_items[k] = None )
       => \A k \in 1..Len(RecordLines(csv_input)) :
              csv_items[k] # None /\ csv_items[k][1].ok

\* A line of 7 fields gave its first 6 fields to an iterator of 6 fields,
\* and the line after it gave its record.
C13_Witness ==
    /\ csv_input = FieldText(8, 7, {})
    /\ csv_num_fields = NUM_ENTRY_FIELDS
    /\ Len(csv_items) >= 3
    /\ csv_items[1]
         = Some(Ok(<< <<97>>, <<50>>, <<99>>, <<100>>, <<101>>, <<102>> >>))
    /\ csv_items[2] = Some(Ok(<< <<104>> >>))
    /\ csv_items[3] = None

\* The characters C14 lists: the ASCII letters and digits and
\* ' * @ [ ] ^ : } { $ . ! > # < - ) ( + ? ; / space ~ _
ListedChars ==
    (65..90) \cup (97..122) \cup (48..57)
    \cup { 39, 42, 64, 91, 93, 94, 58, 125, 123, 36, 46, 33, 62, 35, 60, 45,
           41, 40, 43, 63, 59, 47, 32, 126, 95 }

\* The character at place i of the text is part of a field and not listed.
IsUnlisted(t, i) ==
    /\ t[i] \notin ListedChars \cup { Comma, LineFeed }
    /\ ~(t[i] = CarriageReturn /\ i < Len(t) /\ t[i + 1] = LineFeed)

\* What C14 states of an item the iterator yielded.
OnlyListedChars(item) ==
    IF item[1].ok
    THEN \A f \in 1..Len(item[1].val) :
            \A i \in 1..Len(item[1].val[f]) :
                item[1].val[f][i] \in ListedChars
    ELSE /\ item[1].err.kind = "SpecialChar"
         /\ item[1].err.chr \in (0..MaxAscii) \ ListedChars

\* C14: a character is accepted in a field exactly when it is an ASCII
\* letter, an ASCII digit or one of the 25 listed characters.  The fields
\* of the records hold listed characters only, an error is SpecialChar of a
\* character that is not listed, and a text is decoded without an error
\* exactly when every character of its fields is listed.
C14_AllowedCharacters ==
    /\ \A k \in 1..Len(csv_items) :
          csv_items[k] # None => OnlyListedChars(csv_items[k])
    /\ (\E k \in 1..Len(csv_items) : csv_items[k] = None) =>
          ((\E k \in 1..Len(csv_items) : IsErr(csv_items[k]))
              <=> (\E i \in 1..Len(csv_input) : IsUnlisted(csv_input, i)))

\* The text "a\rb", whose "\r" ends no line, was refused for the "\r".
C14_Witness ==
    /\ csv_input = <<97, CarriageReturn, 98>>
    /\ csv_items = << Some(Err(SpecialChar(CarriageReturn))), None >>

(***************************************************************************)
(* revocation_section.rs: RevocationSectionError                           *)
(***************************************************************************)
MissingVersion == [kind |-> "MissingVersion"]
InvalidVersion(version) == [kind |-> "InvalidVersion", version |-> version]
MissingHeader == [kind |-> "MissingHeader"]
InvalidPreviousOffset(offset) ==
    [kind |-> "InvalidPreviousOffset", offset |-> offset]
InvalidLatestOffset(offset) ==
    [kind |-> "InvalidLatestOffset", offset |-> offset]
MissingPreviousNull == [kind |-> "MissingPreviousNull"]
MissingLatestNull == [kind |-> "MissingLatestNull"]

(***************************************************************************)
(* revocation_section.rs: RevocationSection::parse                         *)
(***************************************************************************)
version_size == 4
PAYLOAD_HEADER_SIZE == 4 * 2

\* u32::from_le_bytes of four bytes, as the two 16-bit limbs of the u32.
u32_from_le_bytes(bytes) ==
    U32(bytes[3] + 256 * bytes[4], bytes[1] + 256 * bytes[2])

\* usize::try_from(u32): on the targets of the crate a usize has at least
\* 32 bits, and the conversion succeeds.
usize_try_from(offset) == Ok(offset)

\* Variant: `start > data.len()`.
start_gt_len(start, data) ==
    U32_lt(U32(Len(data) \div Limb, Len(data) % Limb), start)

\* Variant: an offset into the two offset fields is refused too.
start_outside_payload(start, data) ==
    \/ ~U32_lt(start, U32(Len(data) \div Limb, Len(data) % Limb))
    \/ U32_lt(start, U32(0, PAYLOAD_HEADER_SIZE))

\* `start >= data.len()`, the length of a slice being below 2^32.
start_ge_len(start, data) ==
    ~U32_lt(start, U32(Len(data) \div Limb, Len(data) % Limb))

\* Variant: the place of the last zero byte of data[start..].
last_null_from(data, start) ==
    IF \E i \in (start + 1)..Len(data) : data[i] = 0
    THEN (CHOOSE i \in (start + 1)..Len(data) :
              data[i] = 0 /\ \A j \in (i + 1)..Len(data) : data[j] # 0)
         - start
    ELSE 0

\* data[start..].iter().position(|b| *b == 0): None is 0, Some(len) is
\* len + 1.
null_from(data, start) == position(SubSeq(data, start + 1, Len(data)), 0)

\* Variant: the slice with its terminator.
slice_from_with_null(data, start, len) ==
    SubSeq(data, start + 1, start + len + 1)

\* &data[start..start.checked_add(len).unwrap()]
slice_from(data, start, len) == SubSeq(data, start + 1, start + len)

\* The search for the two terminators and the two slices.
parse_strings(data, previous_start, latest_start) ==
    IF null_from(data, previous_start) = 0
    THEN Err(MissingPreviousNull)
    ELSE IF null_from(data, latest_start) = 0
    THEN Err(MissingLatestNull)
    ELSE Ok([previous |-> slice_from(data, previous_start,
                              null_from(data, previous_start) - 1),
             latest   |-> slice_from(data, latest_start,
                              null_from(data, latest_start) - 1)])

\* Variant: the previous string is looked at before the latest offset.
parse_offsets_previous_first(data, previous_offset, latest_offset) ==
    IF start_ge_len(previous_offset, data)
    THEN Err(InvalidPreviousOffset(previous_offset))
    ELSE IF null_from(data, previous_offset.lo) = 0
    THEN Err(MissingPreviousNull)
    ELSE IF start_ge_len(latest_offset, data)
    THEN Err(InvalidLatestOffset(latest_offset))
    ELSE parse_strings(data, previous_offset.lo, latest_offset.lo)

\* The conversion of the two offsets and their range checks.
parse_offsets(data, previous_offset, latest_offset) ==
    IF ~usize_try_from(previous_offset).ok
    THEN Err(InvalidPreviousOffset(previous_offset))
    ELSE IF ~usize_try_from(latest_offset).ok
    THEN Err(InvalidLatestOffset(latest_offset))
    ELSE IF start_ge_len(usize_try_from(previous_offset).val, data)
    THEN Err(InvalidPreviousOffset(previous_offset))
    ELSE IF start_ge_len(usize_try_from(latest_offset).val, data)
    THEN Err(InvalidLatestOffset(latest_offset))
    ELSE parse_strings(data, usize_try_from(previous_offset).val.lo,
                       usize_try_from(latest_offset).val.lo)

\* The rest of parse, data being the bytes after the version field.
parse_payload(data) ==
    IF Len(data) < PAYLOAD_HEADER_SIZE
    THEN Err(MissingHeader)
    ELSE parse_offsets(data, u32_from_le_bytes(SubSeq(data, 1, 4)),
                       u32_from_le_bytes(SubSeq(data, 5, 8)))

\* Variant: the version field stays in data.
after_version_whole(data) == data

\* data = &data[version_size..]
after_version(data) == SubSeq(data, version_size + 1, Len(data))

RevocationSection_parse(data) ==
    IF Len(data) < version_size
    THEN Err(MissingVersion)
    ELSE IF u32_from_le_bytes(SubSeq(data, 1, version_size)) # U32_ZERO
    THEN Err(InvalidVersion(u32_from_le_bytes(SubSeq(data, 1, version_size))))
    ELSE parse_payload(after_version(data))

RevocationSection_previous(self) == self.previous
RevocationSection_latest(self) == self.latest

(***************************************************************************)
(* SpecSection: a caller of RevocationSection::parse that hands it a       *)
(* section, and longer and longer slices of the bytes the section lies in. *)
(***************************************************************************)
MaxPayload == 3

VersionFields == { <<0, 0, 0, 0>>, <<1, 0, 0, 0>>, <<0, 0, 1, 0>> }

OffsetFields ==
    { <<o, 0, 0, 0>> : o \in 0..(PAYLOAD_HEADER_SIZE + MaxPayload) }
    \cup { <<0, 1, 0, 0>>, <<8, 0, 1, 0>>, <<255, 255, 255, 255>> }

Payloads == UNION { [1..n -> {0, 97}] : n \in 0..MaxPayload }

Sections ==
    { <<0, 0, 0, 0>> \o p \o l \o s :
        p \in OffsetFields, l \in OffsetFields, s \in Payloads }
    \cup { v \o <<8, 0, 0, 0>> \o <<8, 0, 0, 0>> \o <<0>> : v \in VersionFields }

InitSection ==
    /\ section_data \in Sections
    /\ section_len = 0
    /\ section = None
    /\ image_data = <<>>
    /\ revocation_data = <<>>
    /\ InitCaller
    /\ gen_unused
    /\ csv_unused
    /\ store_unused
    /\ extra_unused

\* RevocationSection::parse(&section_data[..len]), of a slice that is not
\* shorter than the one of the call before.
SectionParse ==
    \E len \in section_len..Len(section_data) :
        /\ section = None \/ len > section_len
        /\ section_len' = len
        /\ section' = Some(RevocationSection_parse(SubSeq(section_data, 1, len)))
        /\ UNCHANGED <<image_data, revocation_data, pc, image, revocations,
                       date, rc_iter, components, result, entries_iter,
                       entries, verdicts, panicked, gen_text, gen_val,
                       gen_result, csv_vars, section_data, store_vars,
                       extra_vars>>

NextSection == SectionParse

SpecSection == InitSection /\ [][NextSection]_vars

\* The slice that was parsed, and what parse returned for it.
Blob == SubSeq(section_data, 1, section_len)
Returned == section[1]

\* The k-th 32-bit little-endian field of the blob, k = 0 for the version.
FieldOf(b, k) ==
    U32(b[4 * k + 3] + 256 * b[4 * k + 4], b[4 * k + 1] + 256 * b[4 * k + 2])
PreviousOffsetOf(b) == FieldOf(b, 1)
LatestOffsetOf(b) == FieldOf(b, 2)

\* The offset o, counted from the end of the version field, points into
\* the blob: 4 + o < Len(b).
PointsInto(b, o) == o.hi = 0 /\ 4 + o.lo < Len(b)

\* A zero byte lies at or after the place the offset o points to.
Terminated(b, o) == \E i \in (4 + o.lo + 1)..Len(b) : b[i] = 0

\* The first failure of the blob in the order C15 gives, None without one.
FirstFailure(b) ==
    IF Len(b) < 4 THEN Some(MissingVersion)
    ELSE IF FieldOf(b, 0) # U32(0, 0) THEN Some(InvalidVersion(FieldOf(b, 0)))
    ELSE IF Len(b) < 12 THEN Some(MissingHeader)
    ELSE IF ~PointsInto(b, PreviousOffsetOf(b))
    THEN Some(InvalidPreviousOffset(PreviousOffsetOf(b)))
    ELSE IF ~PointsInto(b, LatestOffsetOf(b))
    THEN Some(InvalidLatestOffset(LatestOffsetOf(b)))
    ELSE IF ~Terminated(b, PreviousOffsetOf(b)) THEN Some(MissingPreviousNull)
    ELSE IF ~Terminated(b, LatestOffsetOf(b)) THEN Some(MissingLatestNull)
    ELSE None

\* C15: RevocationSection::parse makes its checks in the order
\* MissingVersion, InvalidVersion(v), MissingHeader, InvalidPreviousOffset,
\* InvalidLatestOffset, MissingPreviousNull, MissingLatestNull and returns
\* the first failure; it succeeds when there is none.
C15_OrderOfChecks ==
    section # None =>
        IF FirstFailure(Blob) = None
        THEN Returned.ok
        ELSE ~Returned.ok /\ Returned.err = FirstFailure(Blob)[1]

\* A section whose previous string lacks its terminator and whose latest
\* offset is out of range was refused for the latest offset.
C15_Witness ==
    /\ section # None
    /\ Len(Blob) >= 12
    /\ FieldOf(Blob, 0) = U32(0, 0)
    /\ PointsInto(Blob, PreviousOffsetOf(Blob))
    /\ ~Terminated(Blob, PreviousOffsetOf(Blob))
    /\ ~PointsInto(Blob, LatestOffsetOf(Blob))
    /\ Returned = Err(InvalidLatestOffset(LatestOffsetOf(Blob)))

\* The blob has its version field, with version 0, and its payload header.
HasHeader(b) == Len(b) >= 12 /\ FieldOf(b, 0) = U32(0, 0)

\* The bytes of str, and a zero byte after them, lie in the blob from the
\* index i on, the first byte of the blob having the index 0.
StringAt(b, i, str) ==
    /\ i + Len(str) < Len(b)
    /\ \A j \in 1..Len(str) : b[i + j] = str[j]
    /\ b[i + Len(str) + 1] = 0

\* C16: the offsets count from the place right after the 4-byte version
\* field.  A string of the result starts at the index 4 + o of the blob, and
\* an offset o with 4 + o >= the length of the blob is refused with
\* InvalidPreviousOffset(o) or InvalidLatestOffset(o), o being the value
\* read from the header.
C16_OffsetsCountFromVersionEnd ==
    (section # None /\ HasHeader(Blob)) =>
        /\ Returned.ok =>
              /\ PointsInto(Blob, PreviousOffsetOf(Blob))
              /\ PointsInto(Blob, LatestOffsetOf(Blob))
              /\ StringAt(Blob, 4 + PreviousOffsetOf(Blob).lo,
                          RevocationSection_previous(Returned.val))
              /\ StringAt(Blob, 4 + LatestOffsetOf(Blob).lo,
                          RevocationSection_latest(Returned.val))
        /\ ~PointsInto(Blob, PreviousOffsetOf(Blob)) =>
              Returned = Err(InvalidPreviousOffset(PreviousOffsetOf(Blob)))
        /\ (/\ PointsInto(Blob, PreviousOffsetOf(Blob))
            /\ ~PointsInto(Blob, LatestOffsetOf(Blob))) =>
              Returned = Err(InvalidLatestOffset(LatestOffsetOf(Blob)))

\* A previous offset that points right behind the last byte of the blob
\* was refused.
C16_Witness ==
    /\ section # None
    /\ HasHeader(Blob)
    /\ PreviousOffsetOf(Blob).hi = 0
    /\ 4 + PreviousOffsetOf(Blob).lo = Len(Blob)
    /\ Returned = Err(InvalidPreviousOffset(PreviousOffsetOf(Blob)))

\* C17 as stated: the offsets count from the offset 8 of the blob, and a
\* string of the result lies at 8 + offset.
C17_OffsetsCountFromOffset8 ==
    (section # None /\ Returned.ok) =>
        /\ HasHeader(Blob)
        /\ StringAt(Blob, 8 + PreviousOffsetOf(Blob).lo,
                    RevocationSection_previous(Returned.val))
        /\ StringAt(Blob, 8 + LatestOffsetOf(Blob).lo,
                    RevocationSection_latest(Returned.val))

\* C17, amended: the offsets count from the offset 4 of the blob, the end
\* of the version field, and a string of the result lies at 4 + offset.
C17_OffsetsCountFromOffset4 ==
    (section # None /\ Returned.ok) =>
        /\ HasHeader(Blob)
        /\ PreviousOffsetOf(Blob).hi = 0
        /\ LatestOffsetOf(Blob).hi = 0
        /\ StringAt(Blob, 4 + PreviousOffsetOf(Blob).lo,
                    RevocationSection_previous(Returned.val))
        /\ StringAt(Blob, 4 + LatestOffsetOf(Blob).lo,
                    RevocationSection_latest(Returned.val))

\* The section of tests/revocation_section.rs with the offsets 8 and 9,
\* and the strings "a" and "", was parsed: "a" lies at the index 12.
C17_Witness ==
    /\ section_data = <<0, 0, 0, 0, 8, 0, 0, 0, 9, 0, 0, 0, 97, 0>>
    /\ section_len = 14
    /\ section = Some(Ok([previous |-> <<97>>, latest |-> <<>>]))

\* The bytes of the blob from the index start up to the first zero byte
\* at or after it, the zero byte left out; None when there is none.
UpToNull(b, start) ==
    IF \E e \in (start + 1)..Len(b) : b[e] = 0
    THEN Some(SubSeq(b, start + 1,
                     (CHOOSE e \in (start + 1)..Len(b) :
                         b[e] = 0 /\ \A j \in (start + 1)..(e - 1) : b[j] # 0)
                     - 1))
    ELSE None

\* The string lies in the blob, holds no zero byte, and a zero byte follows.
IsNullTerminatedAt(b, start, str) ==
    /\ start + Len(str) < Len(b)
    /\ str = SubSeq(b, start + 1, start + Len(str))
    /\ \A j \in 1..Len(str) : str[j] # 0
    /\ b[start + Len(str) + 1] = 0

\* C18: on success previous() and latest() are the bytes from their start
\* up to, and without, the first zero byte at or after the start: they lie
\* in the blob, hold no zero byte and are followed by one.  Without a zero
\* byte at or after the start the result is MissingPreviousNull or
\* MissingLatestNull.
C18_StringsEndAtFirstNull ==
    (/\ section # None
     /\ HasHeader(Blob)
     /\ PointsInto(Blob, PreviousOffsetOf(Blob))
     /\ PointsInto(Blob, LatestOffsetOf(Blob))) =>
        IF UpToNull(Blob, 4 + PreviousOffsetOf(Blob).lo) = None
        THEN Returned = Err(MissingPreviousNull)
        ELSE IF UpToNull(Blob, 4 + LatestOffsetOf(Blob).lo) = None
        THEN Returned = Err(MissingLatestNull)
        ELSE /\ Returned.ok
             /\ Some(RevocationSection_previous(Returned.val))
                  = UpToNull(Blob, 4 + PreviousOffsetOf(Blob).lo)
             /\ Some(RevocationSection_latest(Returned.val))
                  = UpToNull(Blob, 4 + LatestOffsetOf(Blob).lo)
             /\ IsNullTerminatedAt(Blob, 4 + PreviousOffsetOf(Blob).lo,
                                   RevocationSection_previous(Returned.val))
             /\ IsNullTerminatedAt(Blob, 4 + LatestOffsetOf(Blob).lo,
                                   RevocationSection_latest(Returned.val))

\* A previous string "a" was returned from a section in which a further
\* zero byte follows the terminator of the string.
C18_Witness ==
    /\ section # None
    /\ Returned.ok
    /\ RevocationSection_previous(Returned.val) = <<97>>
    /\ Len(Blob) = 4 + PreviousOffsetOf(Blob).lo + 3
    /\ Blob[Len(Blob)] = 0

\* C19: bytes after the strings do not matter.  When parse succeeded for a
\* blob, it succeeds with an equal result for the blob with any bytes
\* appended to it.
C19_TrailingBytesIgnored ==
    [][(section # None /\ section[1].ok) => section' = section]_vars

\* parse succeeded for a slice, and before that for a shorter slice of the
\* same bytes.
C19_Witness ==
    /\ section # None
    /\ Returned.ok
    /\ \E len \in 0..(section_len - 1) :
          RevocationSection_parse(SubSeq(section_data, 1, len)).ok

(***************************************************************************)
(* error.rs: the errors of a store that is out of space                    *)
(***************************************************************************)
TooManyRecords == [kind |-> "TooManyRecords"]
PushError == [kind |-> "PushError"]

(***************************************************************************)
(* vec.rs: SliceVec, a slice of the caller and the number of its elements  *)
(* in use.  An index of Rust is one less than the index of the sequence.   *)
(***************************************************************************)
SliceVec_new(slice) == [kind |-> "SliceVec", slice |-> slice, len |-> 0]

\* Variant: a full store takes the element in the place of its last one.
SliceVec_try_push_overwrites(self, t) ==
    IF self.len < Len(self.slice)
    THEN [self |-> [self EXCEPT !.slice[self.len + 1] = t, !.len = self.len + 1],
          res |-> Ok(<<>>)]
    ELSE [self |-> IF self.len = 0 THEN self
                   ELSE [self EXCEPT !.slice[self.len] = t],
          res |-> Err(TooManyRecords)]

\* The store after the call, and what the call returned.
SliceVec_try_push(self, t) ==
    IF self.len < Len(self.slice)
    THEN [self |-> [self EXCEPT !.slice[self.len + 1] = t, !.len = self.len + 1],
          res |-> Ok(<<>>)]
    ELSE [self |-> self, res |-> Err(TooManyRecords)]

SliceVec_as_slice(self) == SubSeq(self.slice, 1, self.len)

SliceVec_clear(self) == [self EXCEPT !.len = 0]

(***************************************************************************)
(* arrayvec::ArrayVec<T, N>, and vec.rs: Veclike for ArrayVec              *)
(***************************************************************************)
ArrayVec_new(N) == [kind |-> "ArrayVec", N |-> N, xs |-> <<>>]

\* ArrayVec::try_push: CapacityError, with the element, when len() == N.
ArrayVec_try_push(self, t) ==
    IF Len(self.xs) < self.N
    THEN [self |-> [self EXCEPT !.xs = Append(self.xs, t)], res |-> Ok(<<>>)]
    ELSE [self |-> self, res |-> Err([kind |-> "CapacityError", element |-> t])]

\* .map_err(|_| e)
map_err(r, e) ==
    [self |-> r.self, res |-> IF r.res.ok THEN r.res ELSE Err(e)]

Veclike_ArrayVec_try_push(self, t) ==
    map_err(ArrayVec_try_push(self, t), TooManyRecords)

ArrayVec_as_slice(self) == self.xs

ArrayVec_clear(self) == [self EXCEPT !.xs = <<>>]

(***************************************************************************)
(* vec.rs: Veclike for Vec                                                 *)
(***************************************************************************)
Vec_new == [kind |-> "Vec", xs |-> <<>>]

Vec_try_push(self, t) ==
    [self |-> [self EXCEPT !.xs = Append(self.xs, t)], res |-> Ok(<<>>)]

Vec_as_slice(self) == self.xs

Vec_clear(self) == [self EXCEPT !.xs = <<>>]

(***************************************************************************)
(* array.rs: ImageSbatArray, whose one field `.0` is f0, and                *)
(* RevocationSbatArray                                                     *)
(***************************************************************************)
ImageSbatArray_new(N) == [kind |-> "ImageSbatArray", f0 |-> ArrayVec_new(N)]

ImageSbatArray_entries(self) == ArrayVec_as_slice(self.f0)

ImageSbatArray_try_push_returned(self, r) ==
    map_err([self |-> [self EXCEPT !.f0 = r.self], res |-> r.res], PushError)

ImageSbatArray_try_push(self, entry) ==
    ImageSbatArray_try_push_returned(self, ArrayVec_try_push(self.f0, entry))

RevocationSbatArray_new(N) ==
    [kind |-> "RevocationSbatArray", date |-> None,
     components |-> ArrayVec_new(N)]

RevocationSbatArray_revoked_components(self) ==
    ArrayVec_as_slice(self.components)

RevocationSbatArray_try_push_returned(self, r) ==
    map_err([self |-> [self EXCEPT !.components = r.self], res |-> r.res],
            PushError)

RevocationSbatArray_try_push(self, component) ==
    RevocationSbatArray_try_push_returned(
        self, ArrayVec_try_push(self.components, component))

(***************************************************************************)
(* SpecStore: a caller that makes a store and then pushes to it and clears *)
(* it, as check_fixed_size and test_try_push do.                           *)
(***************************************************************************)
MaxCapacity == 2
MaxVecLen == 3

\* The u8 elements of the tests of vec.rs.
Elements == {1, 2, 3}

NoVendor ==
    [name |-> None, package_name |-> None, version |-> None, url |-> None]

Components == { Component(<<97>>, U32(0, g)) : g \in {1, 2, 3} }

Entries == { Entry(c, NoVendor) : c \in Components }

Stores ==
    { SliceVec_new([i \in 1..N |-> 0]) : N \in 0..MaxCapacity }
    \cup { ArrayVec_new(N) : N \in 0..MaxCapacity }
    \cup { Vec_new }
    \cup { ImageSbatArray_new(N) : N \in 0..MaxCapacity }
    \cup { RevocationSbatArray_new(N) : N \in 0..MaxCapacity }

InitStore ==
    /\ store \in Stores
    /\ store_result = None
    /\ image_data = <<>>
    /\ revocation_data = <<>>
    /\ InitCaller
    /\ gen_unused
    /\ csv_unused
    /\ section_unused
    /\ extra_unused

\* What the store takes.
ElementsOf(self) ==
    CASE self.kind = "ImageSbatArray" -> Entries
      [] self.kind = "RevocationSbatArray" -> Components
      [] OTHER -> Elements

try_push(self, t) ==
    CASE self.kind = "SliceVec" -> SliceVec_try_push(self, t)
      [] self.kind = "ArrayVec" -> Veclike_ArrayVec_try_push(self, t)
      [] self.kind = "Vec" -> Vec_try_push(self, t)
      [] self.kind = "ImageSbatArray" -> ImageSbatArray_try_push(self, t)
      [] self.kind = "RevocationSbatArray" ->
            RevocationSbatArray_try_push(self, t)

as_slice(self) ==
    CASE self.kind = "SliceVec" -> SliceVec_as_slice(self)
      [] self.kind = "ArrayVec" -> ArrayVec_as_slice(self)
      [] self.kind = "Vec" -> Vec_as_slice(self)
      [] self.kind = "ImageSbatArray" -> ImageSbatArray_entries(self)
      [] self.kind = "RevocationSbatArray" ->
            RevocationSbatArray_revoked_components(self)

clear(self) ==
    CASE self.kind = "SliceVec" -> SliceVec_clear(self)
      [] self.kind = "ArrayVec" -> ArrayVec_clear(self)
      [] self.kind = "Vec" -> Vec_clear(self)

StoreUnchanged ==
    UNCHANGED <<image_data, revocation_data, pc, image, revocations, date,
                rc_iter, components, result, entries_iter, entries, verdicts,
                panicked, gen_text, gen_val, gen_result, csv_vars,
                section_vars, extra_vars>>

TryPushReturned(t, r) ==
    /\ store' = r.self
    /\ store_result' = Some([op |-> "try_push", arg |-> Some(t), res |-> r.res])
    /\ StoreUnchanged

\* One call of try_push; a Vec is not let grow without end.
TryPush ==
    \E t \in ElementsOf(store) :
        /\ store.kind = "Vec" => Len(store.xs) < MaxVecLen
        /\ TryPushReturned(t, try_push(store, t))

\* One call of Veclike::clear.
Clear ==
    /\ store.kind \in {"SliceVec", "ArrayVec", "Vec"}
    /\ store' = clear(store)
    /\ store_result' = Some([op |-> "clear", arg |-> None, res |-> Ok(<<>>)])
    /\ StoreUnchanged

NextStore == TryPush \/ Clear

SpecStore == InitStore /\ [][NextStore]_vars

\* The stores of a fixed capacity, their capacity N, and the error of
\* their try_push.
IsFixed(self) == self.kind # "Vec"

CapacityOf(self) ==
    CASE self.kind = "SliceVec" -> Len(self.slice)
      [] self.kind = "ArrayVec" -> self.N
      [] self.kind = "ImageSbatArray" -> self.f0.N
      [] self.kind = "RevocationSbatArray" -> self.components.N

CapacityErrorOf(self) ==
    IF self.kind \in {"ImageSbatArray", "RevocationSbatArray"}
    THEN PushError
    ELSE TooManyRecords

\* What C20 states of a call of try_push with the element t that returned
\* res, the view of the store being before ahead of the call and after
\* behind it.
PushedOrRefused(self, before, t, res, after) ==
    /\ res.ok <=> (IsFixed(self) => Len(before) < CapacityOf(self))
    /\ res.ok => after = before \o <<t>>
    /\ ~res.ok => res.err = CapacityErrorOf(self) /\ after = before

\* What C20 states of one operation on the store.
StoreStep ==
    /\ store'.kind = store.kind
    /\ IsFixed(store) => CapacityOf(store') = CapacityOf(store)
    /\ store_result' # None
    /\ IF store_result'[1].op = "try_push"
       THEN PushedOrRefused(store, as_slice(store), store_result'[1].arg[1],
                            store_result'[1].res, as_slice(store'))
       ELSE as_slice(store') = <<>>

\* C20: the length of a store of the fixed capacity N (SliceVec, ArrayVec,
\* ImageSbatArray, RevocationSbatArray) never exceeds N.  try_push succeeds
\* exactly when the length is below N; a try_push that fails returns the
\* capacity error (TooManyRecords, PushError for the two arrays) and leaves
\* the elements as they are; the view holds the elements pushed with
\* success since the last clear, in the order of the pushes.  try_push of
\* the heap-backed Vec never fails.
C20_FixedCapacityStores ==
    /\ [](IsFixed(store) => Len(as_slice(store)) <= CapacityOf(store))
    /\ [][StoreStep]_vars

\* check_fixed_size on a SliceVec of two elements: after 1 and 2 the push
\* of 3 was refused.
C20_Witness ==
    /\ store.kind = "SliceVec"
    /\ CapacityOf(store) = 2
    /\ as_slice(store) = <<1, 2>>
    /\ store_result
         = Some([op |-> "try_push", arg |-> Some(3), res |-> Err(TooManyRecords)])

(***************************************************************************)
(* The lines of a text and their faults (SpecBytes).                       *)
(***************************************************************************)
\* The line without the "\r" that ends it.
WithoutCr(line) ==
    IF line # <<>> /\ line[Len(line)] = CarriageReturn
    THEN SubSeq(line, 1, Len(line) - 1)
    ELSE line

\* The lines of the text: each piece that a "\n" ends, without the "\r"
\* before the "\n", and the piece after the last "\n" as it is.
LinesOf(t) ==
    [i \in 1..Len(split(t, LineFeed)) |->
        IF i < Len(split(t, LineFeed))
        THEN WithoutCr(split(t, LineFeed)[i])
        ELSE split(t, LineFeed)[i]]

\* A character of the line is neither a comma nor a listed character.
HasUnlisted(line) ==
    \E i \in 1..Len(line) : line[i] \notin ListedChars \cup { Comma }

\* The line is not blank and is no record of a name and a generation.
IsMalformed(line) ==
    /\ line # <<>>
    /\ \/ HasUnlisted(line)
       \/ ~HasComma(line)
       \/ ~ValidGenerationText(split(line, Comma)[2])

SomeLineMalformed(t) ==
    \E i \in 1..Len(LinesOf(t)) : IsMalformed(LinesOf(t)[i])

\* The result is an error and nothing else.
OnlyAnError(res) == ~res.ok /\ DOMAIN res = {"ok", "err"}

\* C21: no partial result.  Whenever a line of the input, up to its first
\* NUL, is malformed, ImageSbat::parse and RevocationSbat::parse return an
\* error alone, without a value from which records could be read.
C21_NoPartialResult ==
    /\ (image # None /\ SomeLineMalformed(BeforeNull(image_data))) =>
          OnlyAnError(image[1])
    /\ (revocations # None /\ SomeLineMalformed(BeforeNull(revocation_data))) =>
          OnlyAnError(revocations[1])

\* The text ",1\na", whose first line is a record and whose second line
\* is not, was refused by both parsers.
C21_Witness ==
    /\ image_data = <<Comma, 49, LineFeed, 97>>
    /\ revocation_data = image_data
    /\ image = Some(Err(TooFewFields))
    /\ revocations = Some(Err(TooFewFields))

(***************************************************************************)
(* Writing the entries back as CSV.  The writer (to_csv, called by the     *)
(* Display implementations of array.rs) is not among the source files; it  *)
(* is taken from the specification: one line per entry, of the name, the   *)
(* generation and the vendor fields that are present, each line ended by   *)
(* "\n".  The digits of the generation are those of Display for            *)
(* Generation.                                                             *)
(***************************************************************************)
field_to_csv(field) == IF field = None THEN <<>> ELSE <<Comma>> \o field[1]

Entry_to_csv(entry) ==
    entry.component.name \o <<Comma>>
    \o Generation_fmt(to_u32(entry.component.generation))
    \o field_to_csv(entry.vendor.name)
    \o field_to_csv(entry.vendor.package_name)
    \o field_to_csv(entry.vendor.version)
    \o field_to_csv(entry.vendor.url)
    \o <<LineFeed>>

RECURSIVE to_csv(_)
to_csv(es) ==
    IF es = <<>> THEN <<>> ELSE Entry_to_csv(Head(es)) \o to_csv(Tail(es))

\* image_sbat.entries().collect::<Vec<_>>() (image.rs:167), acc being the
\* entries collected so far.
RECURSIVE collect_entries(_, _)
collect_entries_step(r, acc) ==
    IF r.panic
    THEN Panic
    ELSE IF r.item = None
    THEN Return(acc)
    ELSE collect_entries(r.line_iter, Append(acc, r.item[1]))

collect_entries(iter, acc) == collect_entries_step(Entries_next(iter), acc)

\* The parse of a text and, when it succeeded, the entries of the value.
parse_and_collect(res) ==
    [image |-> res,
     entries |-> IF res.ok
                 THEN collect_entries(ImageSbat_entries(res.val), <<>>)
                 ELSE Return(<<>>)]

(***************************************************************************)
(* SpecRoundTrip: the caller of combo.rs on an image of entries with       *)
(* vendor fields, who then writes the entries back and parses the text.    *)
(***************************************************************************)
MaxRoundTripLines == 2

\* "a,1"  ",+2"  "b,010,v"  "a,10,,p"  "b,2,v,p,e,u"  "a,1,v,p,e,u,x,y"
RoundTripLines ==
    { <<97, 44, 49>>,
      <<44, 43, 50>>,
      <<98, 44, 48, 49, 48, 44, 118>>,
      <<97, 44, 49, 48, 44, 44, 112>>,
      <<98, 44, 50, 44, 118, 44, 112, 44, 101, 44, 117>>,
      <<97, 44, 49, 44, 118, 44, 112, 44, 101, 44, 117, 44, 120, 44, 121>> }

\* "\n", "\r\n", and "\n\n" with its blank line.
LineEnds == { <<10>>, <<13, 10>>, <<10, 10>> }

RECURSIVE JoinLines(_, _)
JoinLines(lines, end) ==
    IF Len(lines) = 1
    THEN lines[1]
    ELSE lines[1] \o end \o JoinLines(Tail(lines), end)

\* The lines with the line end between them, and with it or without it
\* after the last line.
RoundTripTexts ==
    { <<>> }
    \cup UNION { UNION { { JoinLines(ls, end), JoinLines(ls, end) \o end } :
                            ls \in [1..n -> RoundTripLines] } :
                     n \in 1..MaxRoundTripLines, end \in LineEnds }

InitRoundTrip ==
    /\ image_data \in RoundTripTexts
    /\ revocation_data = <<>>
    /\ InitCaller
    /\ gen_unused
    /\ other_unused

RoundTripUnchanged ==
    UNCHANGED <<image_data, revocation_data, pc, image, revocations, date,
                rc_iter, components, result, entries_iter, entries, verdicts,
                panicked, gen_text, gen_val, gen_result, csv_vars,
                section_vars, store_vars>>

\* The entries that the caller collected are written back.
WriteBack ==
    /\ pc = "done"
    /\ image[1].ok /\ revocations[1].ok
    /\ written = None
    /\ written' = Some(to_csv(entries))
    /\ UNCHANGED <<reparsed, owned, owned_seen, lines_iter, line_items>>
    /\ RoundTripUnchanged

\* ImageSbat::parse of the written text, and entries() of its value.
Reparse ==
    /\ written # None
    /\ reparsed = None
    /\ reparsed' = Some(parse_and_collect(ImageSbat_parse(written[1])))
    /\ UNCHANGED <<written, owned, owned_seen, lines_iter, line_items>>
    /\ RoundTripUnchanged

NextRoundTrip ==
    \/ Parse
    \/ Date
    \/ RevokedComponentsNext
    \/ ValidateImage
    \/ EntriesNext
    \/ WriteBack
    \/ Reparse

SpecRoundTrip == InitRoundTrip /\ [][NextRoundTrip]_vars

\* C22: round trip.  For an image that parsed, the text of its entries
\* written back, one line each of the name, the generation and the vendor
\* fields that are present, parses again, and to entries equal to the
\* first ones in name, generation and vendor fields, in the same order.
C22_RoundTrip ==
    reparsed # None =>
        /\ reparsed[1].image.ok
        /\ ~reparsed[1].entries.panic
        /\ reparsed[1].entries.val = entries

\* The image ",+2\r\nb,010,v" was written back as ",2\nb,10,v\n" and
\* parsed again to its two entries.
C22_Witness ==
    /\ image_data = <<44, 43, 50, 13, 10, 98, 44, 48, 49, 48, 44, 118>>
    /\ written = Some(<<44, 50, 10, 98, 44, 49, 48, 44, 118, 10>>)
    /\ reparsed # None
    /\ reparsed[1].image.ok
    /\ Len(entries) = 2
    /\ reparsed[1].entries = Return(entries)

(***************************************************************************)
(* alloc.rs: ImageSbatOwned and RevocationSbatOwned, each an AsciiString   *)
(* of its own.  A borrowed value is the text; an owned value is a record   *)
(* that holds its copy of the text.                                        *)
(***************************************************************************)
as_csv(self) == self
to_ascii_string(s) == [string |-> s]
from_ascii_str_unchecked(s) == s

\* Variant: the copy is made of the input as it was given.
Owned_parse_sbat_whole_input(sbat, input) ==
    IF ~sbat.ok THEN Err(sbat.err) ELSE Ok(to_ascii_string(input))

\* alloc.rs:33-34 and 78-79: sbat is what the borrowed parse returned.
Owned_parse_sbat(sbat, input) ==
    IF ~sbat.ok THEN Err(sbat.err) ELSE Ok(to_ascii_string(as_csv(sbat.val)))

ImageSbatOwned_parse(input) == Owned_parse_sbat(ImageSbat_parse(input), input)

RevocationSbatOwned_parse(input) ==
    Owned_parse_sbat(RevocationSbat_parse(input), input)

\* Deref for ImageSbatOwned and for RevocationSbatOwned
Owned_deref(self) == from_ascii_str_unchecked(self.string)

\* PartialEq<&ImageSbat> for ImageSbatOwned, PartialEq<&RevocationSbat>
\* for RevocationSbatOwned: &**self == *other
Owned_eq(self, other) == Owned_deref(self) = other

\* PartialEq<ImageSbatOwned> for &ImageSbat, PartialEq<RevocationSbatOwned>
\* for &RevocationSbat: *self == &**other
eq_Owned(self, other) == self = Owned_deref(other)

\* revocations.revoked_components().collect(), acc being the components
\* collected so far.
RECURSIVE collect_components(_, _)
collect_components_step(r, acc) ==
    IF r.panic
    THEN Panic
    ELSE IF r.item = None
    THEN Return(acc)
    ELSE collect_components(r.line_iter, Append(acc, r.item[1]))

collect_components(iter, acc) ==
    collect_components_step(RevokedComponents_next(iter), acc)

(***************************************************************************)
(* SpecOwned: the caller of combo.rs, who then parses the same two inputs  *)
(* to owned values and calls the same accessors through them.              *)
(***************************************************************************)
MaxOwnedLines == 2
MaxOwnedBytes == 2

OwnedTexts == UNION { [1..n -> Bytes] : n \in 0..MaxOwnedBytes }

InitOwned ==
    /\ \/ \E i \in 0..MaxOwnedLines :
            \E r \in 0..(MaxOwnedLines - i) :
               /\ image_data \in Texts(ImageLines, i)
               /\ revocation_data \in Texts(RevocationLines, r)
       \/ /\ image_data \in OwnedTexts
          /\ revocation_data = image_data
    /\ InitCaller
    /\ gen_unused
    /\ other_unused

OwnedUnchanged ==
    UNCHANGED <<image_data, revocation_data, pc, image, revocations, date,
                rc_iter, components, result, entries_iter, entries, verdicts,
                panicked, gen_text, gen_val, gen_result, csv_vars,
                section_vars, store_vars, written, reparsed, lines_iter,
                line_items>>

\* ImageSbatOwned::parse and RevocationSbatOwned::parse of the two inputs.
ParseOwned ==
    /\ pc = "done"
    /\ owned = None
    /\ owned' = Some([image |-> ImageSbatOwned_parse(image_data),
                      revocations |-> RevocationSbatOwned_parse(revocation_data)])
    /\ UNCHANGED owned_seen
    /\ OwnedUnchanged

\* The comparisons with the borrowed values and the calls of combo.rs,
\* i being the owned image and r the owned revocations.
OwnedSeen(i, r) ==
    [image_eq |-> <<Owned_eq(i, image[1].val), eq_Owned(image[1].val, i)>>,
     revocations_eq |-> <<Owned_eq(r, revocations[1].val),
                          eq_Owned(revocations[1].val, r)>>,
     date |-> RevocationSbat_date(Owned_deref(r)),
     components |->
         collect_components(revoked_components(Owned_deref(r)), <<>>),
     result |-> validate_image(Owned_deref(r), Owned_deref(i)),
     entries |-> collect_entries(ImageSbat_entries(Owned_deref(i)), <<>>)]

UseOwned ==
    /\ owned # None
    /\ owned_seen = None
    /\ owned[1].image.ok /\ owned[1].revocations.ok
    /\ image[1].ok /\ revocations[1].ok
    /\ owned_seen' = Some(OwnedSeen(owned[1].image.val, owned[1].revocations.val))
    /\ UNCHANGED owned
    /\ OwnedUnchanged

NextOwned ==
    \/ Parse
    \/ Date
    \/ RevokedComponentsNext
    \/ ValidateImage
    \/ EntriesNext
    \/ ParseOwned
    \/ UseOwned

SpecOwned == InitOwned /\ [][NextOwned]_vars

\* The owned result and the borrowed result are both a success, or both
\* the same error.
SameOutcome(o, b) == IF b.ok THEN o.ok ELSE ~o.ok /\ o.err = b.err

\* C23: the storage variants are observably identical.  The owned parses
\* succeed exactly when the borrowed parses succeed and return the same
\* error otherwise; the owned value equals the borrowed one in both
\* directions; both yield the same entries in the same order, the same
\* date, the same revoked components and the same validation result.
C23_OwnedAsBorrowed ==
    /\ owned # None =>
          /\ SameOutcome(owned[1].image, image[1])
          /\ SameOutcome(owned[1].revocations, revocations[1])
    /\ owned_seen # None =>
          /\ owned_seen[1].image_eq = <<TRUE, TRUE>>
          /\ owned_seen[1].revocations_eq = <<TRUE, TRUE>>
          /\ owned_seen[1].date = Return(date[1])
          /\ owned_seen[1].components = Return(components)
          /\ owned_seen[1].result = Return(result[1])
          /\ owned_seen[1].entries = Return(entries)

\* The image "a,1" and the revocations "a,2,d", parsed to owned values,
\* gave the date "d" and the verdict that the entry a,1 is revoked.
C23_Witness ==
    /\ image_data = <<97, 44, 49>>
    /\ revocation_data = <<97, 44, 50, 44, 100>>
    /\ owned_seen # None
    /\ owned_seen[1].date = Return(Some(<<100>>))
    /\ owned_seen[1].result.val.kind = "Revoked"
    /\ owned_seen[1].result = Return(result[1])
    /\ owned_seen[1].entries = Return(entries)
    /\ Len(entries) = 1

(***************************************************************************)
(* SpecLines: a caller who walks a text with a LineIter, then with a       *)
(* CsvIter, and then parses it and goes on as combo.rs does.               *)
(***************************************************************************)
MaxLineBytes == 3

\* NUL, "\n", "\r", ",", "1", "\" and "a".
LineBytes == { 0, 10, 13, 44, 49, 92, 97 }

\* The lines "a,1" and "1,1", and what "a,1" decodes to.
LineA1 == <<97, Comma, 49>>
Line11 == <<49, Comma, 49>>
RecordA1 == <<<<97>>, <<49>>>>

\* The texts of some bytes, alone, after the line "a,1", before the line
\* "1,1", and between the two.
LineTexts ==
    { p \o t \o q :
          p \in { <<>>, LineA1 },
          t \in UNION { [1..n -> LineBytes] : n \in 0..MaxLineBytes },
          q \in { <<>>, Line11 } }

LineIter_new(string) == string

InitLines ==
    /\ csv_input \in LineTexts
    /\ csv_num_fields \in { MAX_HEADER_FIELDS, NUM_ENTRY_FIELDS }
    /\ csv_iter = CsvIter_new(csv_input)
    /\ csv_items = <<>>
    /\ lines_iter = Some(LineIter_new(csv_input))
    /\ line_items = <<>>
    /\ image_data = csv_input
    /\ revocation_data = csv_input
    /\ InitCaller
    /\ gen_unused
    /\ section_unused
    /\ store_unused
    /\ written = None
    /\ reparsed = None
    /\ owned = None
    /\ owned_seen = None

\* The iterator returned None for the last call.
LinesEnded == line_items # <<>> /\ line_items[Len(line_items)] = None
CsvEnded == csv_items # <<>> /\ csv_items[Len(csv_items)] = None

LineReturned(r) ==
    /\ line_items' = Append(line_items, r.item)
    /\ lines_iter' = Some(r.string)

\* One call of LineIter::next.
LineNext ==
    /\ ~LinesEnded
    /\ LineReturned(LineIter_next(lines_iter[1]))
    /\ UNCHANGED <<image_data, revocation_data, pc, image, revocations, date,
                   rc_iter, components, result, entries_iter, entries,
                   verdicts, panicked, gen_text, gen_val, gen_result,
                   csv_vars, section_vars, store_vars, written, reparsed,
                   owned, owned_seen>>

\* One call of CsvIter::next, once the lines are walked.
CsvNextAfterLines ==
    /\ LinesEnded
    /\ ~CsvEnded
    /\ CsvReturned(CsvIter_next(csv_iter, csv_num_fields))
    /\ UNCHANGED <<image_data, revocation_data, pc, image, revocations, date,
                   rc_iter, components, result, entries_iter, entries,
                   verdicts, panicked, gen_text, gen_val, gen_result,
                   csv_input, csv_num_fields, section_vars, store_vars,
                   extra_vars>>

\* The two parses, once the records are walked.
ParseAfterCsv == CsvEnded /\ Parse

NextLines ==
    \/ LineNext
    \/ CsvNextAfterLines
    \/ ParseAfterCsv
    \/ Date
    \/ RevokedComponentsNext
    \/ ValidateImage
    \/ EntriesNext

SpecLines == InitLines /\ [][NextLines]_vars

\* The loop over a LineIter calls next until it returns None.
LiveLines == SpecLines /\ WF_vars(LineNext)

\* The number of lines of the text: one for each "\n", and one for what
\* comes after the last "\n" if anything does.
CountLines(t) ==
    Cardinality({ i \in 1..Len(t) : t[i] = LineFeed })
    + (IF t # <<>> /\ t[Len(t)] # LineFeed THEN 1 ELSE 0)

\* The call returned None or left less text than there was.
LineStepShortens(string, r) ==
    r.item = None \/ Len(r.string) < Len(string)

CsvStepShortens(string, r) ==
    \/ r.item = None
    \/ r.line_iter = None
    \/ Len(r.line_iter[1]) < Len(string)

\* The caller is through with the three walks and the calls.
Finished ==
    /\ LinesEnded
    /\ CsvEnded
    /\ pc = "done"

\* What an iterator has left to do: a call for each byte and one more.
TextLeft(iter) == IF iter = None THEN 0 ELSE Len(iter[1]) + 1

\* What the caller at pc has left to do, in calls.
CallsLeft ==
    CASE pc = "input" -> 2 * Len(csv_input) + 8
      [] pc = "date" -> 2 * Len(csv_input) + 7
      [] pc = "revoked_components" -> TextLeft(rc_iter) + Len(csv_input) + 4
      [] pc = "validate_image" -> Len(csv_input) + 3
      [] pc = "entries" -> TextLeft(entries_iter) + 1
      [] OTHER -> 0

\* The calls left in the two walks and to the caller.
Remaining ==
    (IF LinesEnded THEN 0 ELSE TextLeft(lines_iter) + 1)
    + (IF CsvEnded THEN 0 ELSE TextLeft(csv_iter) + 1)
    + CallsLeft

StepsWithinLines ==
    /\ lines_iter # None =>
           LineStepShortens(lines_iter[1], LineIter_next(lines_iter[1]))
    /\ csv_iter # None =>
           CsvStepShortens(csv_iter[1], CsvIter_next(csv_iter, csv_num_fields))
    /\ Len(line_items) <= CountLines(csv_input) + 1
    /\ Len(csv_items) <= CountLines(csv_input) + 1
    /\ Len(components) <= CountLines(csv_input)
    /\ Len(entries) <= CountLines(csv_input)
    /\ pc # "panicked"
    /\ Finished <=> Remaining = 0

\* C24: every parse and validate call terminates.  A call of LineIter::next
\* returns None or leaves strictly less text; a walk of the lines or of the
\* records makes at most one call per line of the input and one more that
\* returns None, the records and entries read are at most as many as the
\* lines, and the caller gets through the walks, the parses, date(),
\* revoked_components(), validate_image and entries() on every text, the
\* malformed ones too: every step leaves fewer calls to make, none are left
\* only when the caller is through, and the walk of the lines ends.
C24_Terminates ==
    /\ [](StepsWithinLines)
    /\ [][Remaining' < Remaining]_vars
    /\ <>[](LinesEnded)

\* "a,1", "\n" and a line of a backslash: two lines, three calls of each
\* iterator, and a parse that fails.
C24_Witness ==
    /\ Finished
    /\ csv_input = <<97, Comma, 49, LineFeed, 92>>
    /\ Len(line_items) = 3
    /\ Len(csv_items) = 3
    /\ ~csv_items[2][1].ok
    /\ ~image[1].ok

(***************************************************************************)
(* C25: the "\r" at the end of a line.                                     *)
(***************************************************************************)
\* The walk of the lines is over and yielded the lines given.
LinesYielded(lines) ==
    /\ LinesEnded
    /\ Len(line_items) = CountLines(csv_input) + 1
    /\ \A k \in 1..CountLines(csv_input) : line_items[k] = Some(lines[k])

\* The walk of the records is over and yielded the one record [a, 1].
DecodedA1 ==
    /\ Len(csv_items) = 2
    /\ csv_items[1] = Some(Ok(RecordA1))

\* The claim as stated: every line yielded has lost a "\r" at its end, the
\* last line without "\n" too, and "a,1\r\n" and "a,1\r" both decode to
\* the record [a, 1].
C25_AsStated ==
    /\ LinesEnded =>
           LinesYielded([k \in 1..Len(split(csv_input, LineFeed)) |->
                             WithoutCr(split(csv_input, LineFeed)[k])])
    /\ ( /\ CsvEnded
         /\ csv_input \in { LineA1 \o <<CarriageReturn, LineFeed>>,
                            LineA1 \o <<CarriageReturn>> } )
       => DecodedA1

\* C25: "\n" ends a line, and the "\r" right before that "\n" is not part
\* of the line; a last line without "\n" is yielded as it is, with a "\r"
\* at its end if it has one.  So "a,1\r\n" decodes to the record [a, 1],
\* and "a,1\r" to the error SpecialChar('\r').
C25_CrBeforeLf ==
    /\ LinesEnded => LinesYielded(LinesOf(csv_input))
    /\ (CsvEnded /\ csv_input = LineA1 \o <<CarriageReturn, LineFeed>>)
       => DecodedA1
    /\ (CsvEnded /\ csv_input = LineA1 \o <<CarriageReturn>>)
       => /\ Len(csv_items) = 2
          /\ csv_items[1] = Some(Err(SpecialChar(CarriageReturn)))

\* "a,1\r" walked: the one line is "a,1\r" and the one item is the error.
C25_Witness ==
    /\ LinesEnded
    /\ CsvEnded
    /\ csv_input = LineA1 \o <<CarriageReturn>>
    /\ line_items = <<Some(LineA1 \o <<CarriageReturn>>), None>>
    /\ csv_items = <<Some(Err(SpecialChar(CarriageReturn))), None>>

(***************************************************************************)
(* C26: one record for each line that is not blank.                        *)
(***************************************************************************)
IsNotBlank(line) == line # <<>>

\* The lines of the text, up to its first NUL, that are not blank.
NonBlankLines(t) == SelectSeq(LinesOf(BeforeNull(t)), IsNotBlank)

\* The first fields of the line, NUM_FIELDS of them at most.
FieldsOfLine(line, NUM_FIELDS) ==
    SubSeq(split(line, Comma), 1,
           IF Len(split(line, Comma)) < NUM_FIELDS
           THEN Len(split(line, Comma))
           ELSE NUM_FIELDS)

\* The entries are those of the lines, one for one and in their order.
EntriesOfLines(lines, es) ==
    /\ Len(es) = Len(lines)
    /\ \A k \in 1..Len(lines) :
           Entry_from_record(FieldsOfLine(lines[k], NUM_ENTRY_FIELDS))
               = Ok(es[k])

ComponentsOfLines(lines, cs) ==
    /\ Len(cs) = Len(lines)
    /\ \A k \in 1..Len(lines) :
           Component_from_record(FieldsOfLine(lines[k], MAX_HEADER_FIELDS))
               = Ok(cs[k])

\* C26: for an input that parsed, entries() and revoked_components() yield
\* one record for each line, of the text up to its first NUL, that is not
\* blank, in the order of the lines: a blank line, and a lone "\r" before
\* a "\n", gives no record, the k-th record is that of the k-th line that
\* is not blank, and a walk made again yields the same records, all of
\* them valid as the parse found them.
C26_OneRecordPerLine ==
    (pc = "done" /\ image[1].ok /\ revocations[1].ok) =>
        /\ EntriesOfLines(NonBlankLines(image_data), entries)
        /\ ComponentsOfLines(NonBlankLines(revocation_data), components)
        /\ collect_entries(ImageSbat_entries(image[1].val), <<>>)
               = Return(entries)
        /\ collect_components(revoked_components(revocations[1].val), <<>>)
               = Return(components)

\* "a,1", a "\n", a lone "\r" before a "\n", and "1,1": two entries, the
\* second one from the third line.
C26_Witness ==
    /\ pc = "done"
    /\ image_data = LineA1 \o <<LineFeed, CarriageReturn, LineFeed>> \o Line11
    /\ image[1].ok
    /\ Len(entries) = 2
    /\ entries[2].component.name = <<49>>
    /\ Len(components) = 2

(***************************************************************************)
(* SpecOrder: the caller of combo.rs on lists that name a component more   *)
(* than once.                                                              *)
(***************************************************************************)
MaxOrderLines == 3

\* "a,1", "a,2", "a,10" and "A,2".
OrderImageLines ==
    { Line(<<97>>, <<49>>), Line(<<97>>, <<50>>), Line(<<97>>, <<49, 48>>),
      Line(<<65>>, <<50>>) }

\* "a,2", "a,10" and "A,2".
OrderRevocationLines ==
    { Line(<<97>>, <<50>>), Line(<<97>>, <<49, 48>>), Line(<<65>>, <<50>>) }

InitOrder ==
    /\ \E i \in 0..MaxOrderLines :
         \E r \in 0..(MaxOrderLines - i) :
            /\ image_data \in Texts(OrderImageLines, i)
            /\ revocation_data \in Texts(OrderRevocationLines, r)
    /\ InitCaller
    /\ gen_unused
    /\ other_unused

SpecOrder == InitOrder /\ [][Next]_vars

(***************************************************************************)
(* C27: the order of the entries and of the revoked components.            *)
(***************************************************************************)
\* The orders in which n lines can be put.
Orders(n) ==
    { f \in [1..n -> 1..n] : \A i, j \in 1..n : f[i] = f[j] => i = j }

\* The text with its lines put in the order f.
Reordered(t, f) ==
    JoinLines([k \in 1..Len(split(t, LineFeed)) |->
                   split(t, LineFeed)[f[k]]], <<LineFeed>>)

Reorderings(t) ==
    { Reordered(t, f) : f \in Orders(Len(split(t, LineFeed))) }

\* Allowed or Revoked.
Outcome(v) == IF v.panic THEN "panic" ELSE v.val.kind

\* C27: whether validate_image returns Allowed or Revoked does not depend
\* on the order of the entries of the image nor on that of the components
\* of the revocation list: with the lines of either text in any other
\* order the outcome is the same, and with those of the revocation list
\* alone in another order the entry reported is the same too.
C27_OrderIndependent ==
    (pc = "done" /\ result # None) =>
        /\ \A i \in Reorderings(image_data) :
             \A r \in Reorderings(revocation_data) :
                Outcome(validate_image(r, i)) = result[1].kind
        /\ \A r \in Reorderings(revocation_data) :
                validate_image(r, image_data) = Return(result[1])

\* "a,1" and "a,2" under the list "a,10": Revoked with the entry a,1, and
\* Revoked with the entry a,2 when the two lines change places.
C27_Witness ==
    /\ pc = "done"
    /\ result # None
    /\ image_data = <<97, Comma, 49, LineFeed, 97, Comma, 50>>
    /\ revocation_data = <<97, Comma, 49, 48>>
    /\ result[1].kind = "Revoked"
    /\ result[1].entry.component.generation = U32(0, 1)
    /\ validate_image(revocation_data,
                      <<97, Comma, 50, LineFeed, 97, Comma, 49>>)
           .val.entry.component.generation = U32(0, 2)

(***************************************************************************)
(* C28: a name listed more than once.                                      *)
(***************************************************************************)
\* The generations that the lines of the text list for the name.
ListedGenerations(t, name) ==
    { Generation_from_ascii(split(NonBlankLines(t)[i], Comma)[2]).val :
        i \in { j \in 1..Len(NonBlankLines(t)) :
                  split(NonBlankLines(t)[j], Comma)[1] = name } }

ListedMoreThanOnce(t, name) ==
    \E i, j \in 1..Len(NonBlankLines(t)) :
        /\ i # j
        /\ split(NonBlankLines(t)[i], Comma)[1] = name
        /\ split(NonBlankLines(t)[j], Comma)[1] = name

\* The greatest of the generations.
Greatest(gs) == CHOOSE g \in gs : \A h \in gs : ~U32_lt(g, h)

\* The component is below the greatest generation listed for its name.
BelowGreatest(t, c) ==
    /\ ListedGenerations(t, c.name) # {}
    /\ U32_lt(c.generation, Greatest(ListedGenerations(t, c.name)))

\* C28: a revocation list that names a component more than once parses, and
\* a component of that name is revoked exactly when its generation is below
\* the greatest of the generations listed for the name, in whatever order
\* the list has them.
C28_GreatestListedGeneration ==
    /\ (revocations # None /\ \E e \in 1..Len(entries) :
            ListedMoreThanOnce(revocation_data, entries[e].component.name))
       => revocations[1].ok
    /\ (pc = "done" /\ result # None) =>
          \A k \in 1..Len(entries) :
             /\ verdicts[k] = BelowGreatest(revocation_data,
                                            entries[k].component)
             /\ \A r \in Reorderings(revocation_data) :
                   is_component_revoked(r, entries[k].component)
                       = Return(verdicts[k])

\* The list "a,2" and "a,10", and the entry a,2: not below 2, below 10,
\* and revoked.
C28_Witness ==
    /\ pc = "done"
    /\ result # None
    /\ revocation_data = <<97, Comma, 50, LineFeed, 97, Comma, 49, 48>>
    /\ image_data = <<97, Comma, 50>>
    /\ ListedGenerations(revocation_data, <<97>>) = { U32(0, 2), U32(0, 10) }
    /\ verdicts = <<TRUE>>
    /\ result[1].kind = "Revoked"

(***************************************************************************)
(* C29: which error a parse returns.                                       *)
(***************************************************************************)
\* The place of the first malformed line among the lines, 0 if none is.
FirstMalformed(lines) ==
    IF \E i \in 1..Len(lines) : IsMalformed(lines[i])
    THEN CHOOSE i \in 1..Len(lines) :
            /\ IsMalformed(lines[i])
            /\ \A j \in 1..(i - 1) : ~IsMalformed(lines[j])
    ELSE 0

\* The error of a malformed line: a character that is not allowed before
\* a missing generation, and that before a generation that is not valid.
LineErrorKind(line) ==
    IF HasUnlisted(line)
    THEN "SpecialChar"
    ELSE IF ~HasComma(line)
    THEN "TooFewFields"
    ELSE "InvalidGeneration"

LinesErrorKind(lines) ==
    IF FirstMalformed(lines) = 0
    THEN "none"
    ELSE LineErrorKind(lines[FirstMalformed(lines)])

\* The error that the text is to be refused with, "none" if it is not.
TextErrorKind(t) ==
    IF NonAsciiBeforeNull(t)
    THEN "InvalidAscii"
    ELSE LinesErrorKind(LinesOf(BeforeNull(t)))

ErrorKindOf(res) == IF res.ok THEN "none" ELSE res.err.kind

\* C29: ImageSbat::parse and RevocationSbat::parse return InvalidAscii for
\* a byte that is not ASCII anywhere before the first NUL, even after a
\* malformed line; otherwise the error of the first malformed line, which
\* is SpecialChar if any of its fields holds a character that is not
\* allowed, TooFewFields if it has no field 1, and InvalidGeneration only
\* if it has one.
C29_ErrorPrecedence ==
    /\ image # None => ErrorKindOf(image[1]) = TextErrorKind(image_data)
    /\ revocations # None =>
          ErrorKindOf(revocations[1]) = TextErrorKind(revocation_data)

\* The text "a", "\n" and 0x80 is refused with InvalidAscii by both parses
\* though its first line has no generation.
C29_Witness ==
    /\ image_data = <<97, LineFeed, 128>>
    /\ revocation_data = image_data
    /\ image = Some(Err(InvalidAscii))
    /\ revocations = Some(Err(InvalidAscii))
    /\ LinesErrorKind(LinesOf(<<97, LineFeed>>)) = "TooFewFields"

(***************************************************************************)
(* C30: offsets into the header, and offsets that meet.                    *)
(***************************************************************************)
\* The offset points into the blob and a zero byte follows.
Usable(b, o) == PointsInto(b, o) /\ Terminated(b, o)

\* The offset points into the two offset fields of the blob.
PointsIntoHeader(o) == o.hi = 0 /\ o.lo < PAYLOAD_HEADER_SIZE

\* C30: RevocationSection::parse asks of an offset only that it is below
\* the length of the data after the version field and that a zero byte
\* follows; it asks nothing more of an offset into the 8 bytes of the two
\* offset fields, nor of two offsets that are equal or whose strings share
\* bytes.  Each string is then the bytes from its offset to the next zero
\* byte, bytes of the offset fields among them.
C30_NoLowerBoundNoDisjointness ==
    (section # None /\ HasHeader(Blob)) =>
        /\ Returned.ok <=> ( /\ Usable(Blob, PreviousOffsetOf(Blob))
                             /\ Usable(Blob, LatestOffsetOf(Blob)) )
        /\ (Returned.ok /\ PointsIntoHeader(PreviousOffsetOf(Blob))) =>
              RevocationSection_previous(Returned.val)
                  = UpToNull(Blob, 4 + PreviousOffsetOf(Blob).lo)[1]
        /\ (Returned.ok /\ PointsIntoHeader(LatestOffsetOf(Blob))) =>
              RevocationSection_latest(Returned.val)
                  = UpToNull(Blob, 4 + LatestOffsetOf(Blob).lo)[1]
        /\ (Returned.ok /\ PreviousOffsetOf(Blob) = LatestOffsetOf(Blob)) =>
              RevocationSection_previous(Returned.val)
                  = RevocationSection_latest(Returned.val)

\* Both offsets are 4, the place of the latest offset itself: both strings
\* are the one byte 4 of that field.
C30_Witness ==
    /\ section # None
    /\ HasHeader(Blob)
    /\ PreviousOffsetOf(Blob) = U32(0, 4)
    /\ LatestOffsetOf(Blob) = U32(0, 4)
    /\ section = Some(Ok([previous |-> <<4>>, latest |-> <<4>>]))

====
